---- MODULE Spec2Model ----
(***************************************************************************)
(* The simulated-annealing optimizer of src/simulated-annealing/annealing.py *)
(* as a state machine: one call of annealing(f, domain, domain_type, ...)  *)
(* from its entry to its return or to the exception that ends it, and the  *)
(* helpers _periodic_wrap and _accept_boltzmann called on their own.       *)
(* Beside it, db_create_table, db_save and db_read of                      *)
(* src/imautils/db/sqlitedatabase.py on one table of one database file,    *)
(* with SQLite's primary key, NOT NULL and column affinity.                *)
(*                                                                         *)
(* Numbers.  Floats are modelled on grids.  Continuous coordinates and     *)
(* costs are integers.  A temperature is a rational [n, d] with d > 0: the *)
(* linear schedule is exact, the exponential one is the exact real value   *)
(* rounded down to a multiple of 1/TempScale.  A probability and the draw  *)
(* rn are integers in units of 1/PScale (PScale stands for 1.0).           *)
(*                                                                         *)
(* The cost function f is the caller's.  The model uses the two cost       *)
(* functions of the file's own test section (lines 281-292 and 308-310);   *)
(* both return Python numbers here, so a division by a zero temperature    *)
(* raises ZeroDivisionError.                                               *)
(***************************************************************************)
EXTENDS Integers, Sequences, FiniteSets, TLC

VARIABLES
    args,         \* the arguments of the call (never change)
    pc,           \* position of the call in annealing()
    err,          \* the exception that ended the call ("" while none)
    x,            \* current input vector (<<>> before line 186/188)
    fun,          \* cost of x
    k,            \* loop index of line 206
    temp,         \* temperature of the current step, a rational [n, d]
    visit_scale,  \* visiting scale of the current step, a rational [n, d]
    x_pre,        \* continuous: x + normal(...) of line 224 in the step being
                  \* made, before line 225 wraps it (<<>> outside a step)
    x_new,        \* candidate input vector
    fun_new,      \* cost of x_new
    p,            \* acceptance probability, in units of 1/PScale
    rn,           \* the draw of line 242, in units of 1/PScale
    accept,       \* the accept switch of line 243
    width,        \* discrete: item width of the numpy string array x
    calls,        \* number of calls of f made so far
    evaluated,    \* the vector passed to f in its latest call
    result,       \* the returned dict, <<x, fun>> (<<>> before the return)
    output_file,  \* the file of lines 198-203, 254-255 and 263
    hist,         \* history of the call: the latest accepted <<x, fun>> and
                  \* the <<x, fun>> of lowest cost that has been current
    wrap,         \* a call of _periodic_wrap on its own
    boltz,        \* a call of _accept_boltzmann on its own
    db            \* the sqlite database file of imautils/db/sqlitedatabase.py
                  \* and the latest call made on it

vars == <<args, pc, err, x, fun, k, temp, visit_scale, x_pre, x_new, fun_new,
          p, rn, accept, width, calls, evaluated, result, output_file, hist,
          wrap, boltz, db>>

annealingVars == <<args, pc, err, x, fun, k, temp, visit_scale, x_pre, x_new,
                   fun_new, p, rn, accept, width, calls, evaluated, result,
                   output_file, hist>>

\* ------------------------------------------------------------------ bounds

\* niter ranges over 0..MaxIter
MaxIter == 3
\* each component of the normal draw of line 224 ranges over -MaxPert..MaxPert
MaxPert == 4
\* the exponential schedule is rounded down to multiples of 1/TempScale
TempScale == 4
\* inputs of _periodic_wrap called on its own range over -MaxX..MaxX
MaxX == 17

\* _accept_boltzmann on its own: df ranges over -MaxDf..MaxDf (and some large
\* values), the numerator of temp over 0..MaxT
MaxDf == 12

MaxT == 8

\* the sqlite table: ids 1..MaxId are given in values_dict, and a db_save is
\* made while it leaves at most MaxRows entries in the table
MaxId == 2

MaxRows == 2

\* 1.0 as a probability: p and rn are counted in units of 1/PScale
PScale == 100

\* --------------------------------------------------------------- arithmetic

Abs(n) == IF n < 0 THEN -n ELSE n

Sign(n) == IF n < 0 THEN -1 ELSE IF n > 0 THEN 1 ELSE 0

MaxOf(S) == CHOOSE m \in S : \A n \in S : n <= m

RECURSIVE Pow(_, _)
Pow(b, e) == IF e <= 0 THEN 1 ELSE b * Pow(b, e - 1)

\* the rational n/d, its denominator made positive (d # 0)
Rat(n, d) == IF d < 0 THEN [n |-> -n, d |-> -d] ELSE [n |-> n, d |-> d]

RatLt(a, b) == a.n * b.d < b.n * a.d

\* Python's max(a, b): b only when b > a
RatMax(a, b) == IF RatLt(a, b) THEN b ELSE a

\* C's fmod in place of Python's %: the sign of the dividend
FmodInsteadOfPyMod(a, b) == Sign(a) * (Abs(a) % Abs(b))

\* Python's a % b on numbers: floored, the sign of the divisor (b # 0)
PyMod(a, b) == IF b > 0 THEN a % b ELSE -((-a) % (-b))

\* Python's round(r) of a float: to the nearest integer, a tie to the even one
PyRound(r) ==
    LET fl == r.n \div r.d
        rem == r.n % r.d
    IN  IF 2 * rem < r.d THEN fl
        ELSE IF 2 * rem > r.d THEN fl + 1
        ELSE IF fl % 2 = 0 THEN fl ELSE fl + 1

\* the integer part of the m-th root of v >= 0, known to be at most hi
IRoot(v, m, hi) == CHOOSE r \in 0..hi : Pow(r, m) <= v /\ Pow(r + 1, m) > v

\* np.exp(a) for a < 0 in units of 1/PScale, rounded down: the argument is
\* rounded towards zero to a multiple of 1/4, entry j+1 is floor(100*exp(-j/4))
ExpTable == <<100, 77, 60, 47, 36, 28, 22, 17, 13, 10, 8, 6, 4, 3, 3, 2, 1, 1, 1>>

NpExpNeg(a) ==
    LET j == ((-a.n) * 4) \div a.d
    IN  IF j + 1 > Len(ExpTable) THEN 0 ELSE (ExpTable[j + 1] * PScale) \div 100

\* ------------------------------------------------------------ the arguments

\* (init_temp, final_temp): two usual pairs, a negative pair, a zero init_temp
TempPairs == {<<8, 1>>, <<6, 2>>, <<-8, -1>>, <<0, 1>>}

\* (init_visit_scale, min_visit_scale)
VisitPairs == {<<2, 1>>}

DecayTypes == {"exp", "linear", "cubic"}

\* continuous domains, [min, max] per dimension; the last has min > max
ContDomains == { << <<0, 3>> >>, << <<0, 2>>, <<-1, 1>> >>, << <<3, 1>> >> }

\* discrete domains, the options per dimension; the options of the second
\* differ in length, the third has a dimension without options
DiscDomains == { << <<"a", "b", "d">>, <<"c", "d">> >>,
                 << <<"a", "dd">>, <<"c">> >>,
                 << <<"a", "b">>, <<>> >> }

Domains == {<<"continuous", d>> : d \in ContDomains}
               \cup {<<"discrete", d>> : d \in DiscDomains}

ArgsSet ==
    { [domain_type |-> dom[1], domain |-> dom[2],
       init_temp |-> tp[1], final_temp |-> tp[2],
       niter |-> n, decay_type |-> dc,
       init_visit_scale |-> vs[1], min_visit_scale |-> vs[2],
       f_partial |-> fp, filename |-> "None"] :
        dom \in Domains, tp \in TempPairs, n \in 0..MaxIter,
        dc \in DecayTypes, vs \in VisitPairs, fp \in BOOLEAN }

\* ------------------------------------------------------------ the functions

Range(s) == {s[i] : i \in 1..Len(s)}

RECURSIVE SumSeq(_)
SumSeq(s) == IF s = <<>> THEN 0 ELSE Head(s) + SumSeq(Tail(s))

\* f of TEST 1 (lines 281-292): 40, 30, 20, 10 for 'a', 'b', 'c', 'd'
Weight(e) ==
    CASE e = "a" -> 40 [] e = "b" -> 30 [] e = "c" -> 20 [] e = "d" -> 10
      [] OTHER -> 0

\* f of TEST 2 (lines 308-310) at integer coordinates, where cos(2*pi*x) = 1:
\* sum(x*x - 10) + 10*size(x)
Rastrigin(v) == SumSeq([i \in 1..Len(v) |-> v[i] * v[i] - 10]) + 10 * Len(v)

CostFn(domain_type, v) ==
    IF domain_type = "discrete"
    THEN SumSeq([i \in 1..Len(v) |-> Weight(v[i])])
    ELSE Rastrigin(v)

\* a cost function f that raises on some vectors (lines 191 and 236 call f
\* outside any try): with f_partial, on the vectors whose first component is
\* 1 (continuous) or "d" (discrete)
FRaises(a, v) ==
    /\ a.f_partial
    /\ v[1] = (IF a.domain_type = "continuous" THEN 1 ELSE "d")

\* _periodic_wrap that folds by one period only, whatever the distance
WrapOneSinglePeriod(xi, xmin, xmax) ==
    IF xi < xmin THEN <<xi + (xmax - xmin), TRUE>>
    ELSE IF xi > xmax THEN <<xi - (xmax - xmin), TRUE>>
    ELSE <<xi, FALSE>>

\* _periodic_wrap that takes max itself for a value outside the limits
WrapOneHalfOpen(xi, xmin, xmax) ==
    IF (xi < xmin) \/ (xi >= xmax)
    THEN <<xmin + PyMod(xi - xmin, xmax - xmin), TRUE>>
    ELSE <<xi, FALSE>>

\* _periodic_wrap, one component: <<new_x, did_wrap>>
WrapOne(xi, xmin, xmax) ==
    IF (xi < xmin) \/ (xi > xmax)
    THEN <<xmin + PyMod(xi - xmin, xmax - xmin), TRUE>>
    ELSE <<xi, FALSE>>

\* _periodic_wrap(xs, xlimits): [new_xs, did_wraps]; zip stops at the shorter
PeriodicWrap(xs, xlimits) ==
    LET n == IF Len(xs) < Len(xlimits) THEN Len(xs) ELSE Len(xlimits)
    IN  [new_xs |-> [i \in 1..n |-> WrapOne(xs[i], xlimits[i][1], xlimits[i][2])[1]],
         did_wraps |-> [i \in 1..n |-> WrapOne(xs[i], xlimits[i][1], xlimits[i][2])[2]]]

\* _accept_boltzmann without the test of line 57: exp(a) also for a >= 0,
\* where it is 1 + a or more
AcceptBoltzmannUnguarded(df, t) ==
    LET a == Rat((-1) * df * t.d, t.n)
    IN  IF a.n >= 0 THEN PScale + (a.n * PScale) \div a.d ELSE NpExpNeg(a)

\* _accept_boltzmann(df, temp), temp # 0: min{1, exp(-df/temp)}
AcceptBoltzmann(df, t) ==
    LET a == Rat((-1) * df * t.d, t.n)
    IN  IF a.n >= 0 THEN PScale ELSE NpExpNeg(a)

\* np.exp(a) in double precision is 0.0 below about -745.13 (half the
\* smallest subnormal, 2^-1075): in hundredths
ExpUnderflow == -74513

\* whether the float that _accept_boltzmann(df, temp) returns is above 0.0
\* (the value in units of 1/PScale is 0 for every float below 1/PScale)
AcceptBoltzmannPositive(df, t) ==
    LET a == Rat((-1) * df * t.d, t.n)
    IN  a.n >= 0 \/ ~RatLt(a, Rat(ExpUnderflow, 100))

\* a check of decay_type that lets every value through
DecayTypeUnchecked(a) == TRUE

\* line 173: the decay type is one of the two known
DecayTypeKnown(a) == a.decay_type \in {"exp", "linear"}

\* line 176: min(final_temp, init_temp) < 0.99999*resolution (about 1e-15);
\* on the integer grid of the arguments this is min(..) <= 0
TempBelowMinimum(a) ==
    (IF a.final_temp < a.init_temp THEN a.final_temp ELSE a.init_temp) <= 0

\* lines 177-178 build a ValueError and drop it: no raise statement
TempCheckRaises(a) == FALSE

\* line 182 divides final_temp by init_temp and 1 by niter-1
DecayFacRaises(a) ==
    a.decay_type = "exp" /\ (a.init_temp = 0 \/ a.niter - 1 = 0)

\* a linear schedule that divides k by niter instead of niter-1
LinearTempOverNiter(a, kk) ==
    Rat(a.init_temp * (a.niter - kk) + kk * a.final_temp, a.niter)

\* a linear schedule that subtracts the share of final_temp
LinearTempMinusFinal(a, kk) ==
    Rat(a.init_temp * (a.niter - 1 - kk) - kk * a.final_temp, a.niter - 1)

\* lines 214-215: init_temp - (k/(niter-1))*init_temp + (k/(niter-1))*final_temp
LinearTemp(a, kk) ==
    Rat(a.init_temp * (a.niter - 1 - kk) + kk * a.final_temp, a.niter - 1)

\* an exponential schedule whose decay factor has the wrong sign: it runs from
\* final_temp up to init_temp
ExpTempRising(a, kk) ==
    LET m == a.niter - 1
        hi == MaxOf({Abs(a.init_temp), Abs(a.final_temp)}) * TempScale
        v == Pow(Abs(a.init_temp) * TempScale, kk)
                 * Pow(Abs(a.final_temp) * TempScale, m - kk)
    IN  Rat(Sign(a.init_temp) * IRoot(v, m, hi), TempScale)

\* line 217 with line 182: init_temp*exp(log(final_temp/init_temp)*kk/(niter-1)),
\* the real value rounded down (in magnitude) to a multiple of 1/TempScale
ExpTemp(a, kk) ==
    LET m == a.niter - 1
        hi == MaxOf({Abs(a.init_temp), Abs(a.final_temp)}) * TempScale
        v == Pow(Abs(a.init_temp) * TempScale, m - kk)
                 * Pow(Abs(a.final_temp) * TempScale, kk)
    IN  Rat(Sign(a.init_temp) * IRoot(v, m, hi), TempScale)

Temperature(a, kk) ==
    IF a.decay_type = "linear" THEN LinearTemp(a, kk) ELSE ExpTemp(a, kk)

\* the visit scale of the docstring (lines 151-154): min{...} in place of max
VisitScaleMin(a, t) ==
    IF RatLt(Rat(a.init_visit_scale * t.n, t.d * a.init_temp), Rat(a.min_visit_scale, 1))
    THEN Rat(a.init_visit_scale * t.n, t.d * a.init_temp)
    ELSE Rat(a.min_visit_scale, 1)

\* lines 219-220: max(init_visit_scale*(temp/init_temp), min_visit_scale)
VisitScale(a, t) ==
    RatMax(Rat(a.init_visit_scale * t.n, t.d * a.init_temp),
           Rat(a.min_visit_scale, 1))

\* line 186: np.random.uniform(min, max) on the integer grid: [min, max), min
\* itself when max = min, and (max, min] when min > max (numpy computes
\* low + (high-low)*u with u in [0, 1) and checks only that high-low is finite)
UniformDraws(bound) ==
    IF bound[1] < bound[2] THEN bound[1]..(bound[2] - 1)
    ELSE IF bound[1] = bound[2] THEN {bound[1]}
    ELSE (bound[2] + 1)..bound[1]

\* the vectors with the i-th component in S[i]
Vectors(S) == {v \in [1..Len(S) -> UNION Range(S)] : \A i \in 1..Len(S) : v[i] \in S[i]}

\* item width of np.array(x) for a list of strings: the longest one
ItemWidth(v) == MaxOf({0} \cup {Len(v[i]) : i \in 1..Len(v)})

\* x_new[index] = state on a numpy array of strings of item width w
Truncate(state, w) == IF Len(state) > w THEN SubSeq(state, 1, w) ELSE state

StoreItem(v, index, state, w) == [v EXCEPT ![index] = Truncate(state, w)]

\* lines 230-233: the swaps, in order; picks[j] = <<index, state>>
RECURSIVE ApplySwaps(_, _, _)
ApplySwaps(v, picks, w) ==
    IF picks = <<>> THEN v
    ELSE ApplySwaps(StoreItem(v, Head(picks)[1], Head(picks)[2], w), Tail(picks), w)

\* lines 231-232: an index of range(dim) and an option of domain[index]
Picks(domain) ==
    UNION { {<<i, domain[i][j]>> : j \in 1..Len(domain[i])} : i \in 1..Len(domain) }

\* ------------------------------------------------------- the call, by steps

NoRat == [n |-> 0, d |-> 1]

NoWrap == [pc |-> "off", xs |-> <<>>, xlimits |-> <<>>,
           new_xs |-> <<>>, did_wraps |-> <<>>,
           again_xs |-> <<>>, again_wraps |-> <<>>]

\* no file: filename is None, or line 199 is not reached yet
NoFile == [state |-> "none", headers |-> 0, records |-> <<>>]

NoHist == [last |-> <<>>, best |-> <<>>]

\* ---------------------------------------------------------- sqlite values

\* the Python values passed to and read from sqlite3: None, an int, a str
None == [type |-> "NoneType", int |-> 0, str |-> ""]

IntV(i) == [type |-> "int", int |-> i, str |-> ""]

StrV(t) == [type |-> "str", int |-> 0, str |-> t]

\* the decimal numerals of the integers 0..9
Digits == <<"0", "1", "2", "3", "4", "5", "6", "7", "8", "9">>

IsIntText(t) == \E i \in 1..Len(Digits) : Digits[i] = t

TextToInt(t) == (CHOOSE i \in 1..Len(Digits) : Digits[i] = t) - 1

IntToText(i) == Digits[i + 1]

\* no database file, no call made
NoCall ==
    [op |-> "", database_name |-> None, raised |-> "", ret |-> None,
     values |-> <<>>, idn |-> None]

NoDb == [file |-> FALSE, columns |-> <<>>, rows |-> <<>>, call |-> NoCall]

NoBoltz == [pc |-> "idle", df |-> 0, temp |-> NoRat, p |-> 0, positive |-> FALSE]

\* the locals of annealing() before its first statement
Entry(a) ==
    /\ args = a
    /\ pc = "check"
    /\ err = ""
    /\ x = <<>>
    /\ fun = 0
    /\ k = 0
    /\ temp = NoRat
    /\ visit_scale = NoRat
    /\ x_pre = <<>>
    /\ x_new = <<>>
    /\ fun_new = 0
    /\ p = 0
    /\ rn = 0
    /\ accept = FALSE
    /\ width = 0
    /\ calls = 0
    /\ evaluated = <<>>
    /\ result = <<>>
    /\ output_file = NoFile
    /\ hist = NoHist

Init == (\E a \in ArgsSet : Entry(a)) /\ wrap = NoWrap /\ boltz = NoBoltz /\ db = NoDb

Raise(e) ==
    /\ pc' = "error"
    /\ err' = e

\* lines 172-178: the check of decay_type and the check of the temperatures
CheckArgs ==
    /\ pc = "check"
    /\ IF ~DecayTypeKnown(args) THEN Raise("ValueError")
       ELSE IF TempBelowMinimum(args) /\ TempCheckRaises(args) THEN Raise("ValueError")
       ELSE pc' = "decay_fac" /\ err' = err
    /\ UNCHANGED <<args, x, fun, k, temp, visit_scale, x_pre, x_new, fun_new,
                   p, rn, accept, width, calls, evaluated, result, output_file, hist,
                   wrap, boltz, db>>

\* lines 180-182: the exponential decay factor
DecayFac ==
    /\ pc = "decay_fac"
    /\ IF DecayFacRaises(args) THEN Raise("ZeroDivisionError")
       ELSE pc' = "init_x" /\ err' = err
    /\ UNCHANGED <<args, x, fun, k, temp, visit_scale, x_pre, x_new, fun_new,
                   p, rn, accept, width, calls, evaluated, result, output_file, hist,
                   wrap, boltz, db>>

\* lines 184-189, continuous: a uniform draw per dimension
InitialVectorContinuous ==
    /\ pc = "init_x"
    /\ args.domain_type = "continuous"
    /\ \E v \in Vectors([i \in 1..Len(args.domain) |-> UniformDraws(args.domain[i])]) :
          x' = v
    /\ pc' = "init_fun"
    /\ UNCHANGED <<args, err, fun, k, temp, visit_scale, x_pre, x_new, fun_new,
                   p, rn, accept, width, calls, evaluated, result, output_file, hist,
                   wrap, boltz, db>>

\* lines 184-189, discrete: np.random.choice per dimension, which raises
\* ValueError on a dimension without options; np.array(x) fixes the item width
InitialVectorDiscrete ==
    /\ pc = "init_x"
    /\ args.domain_type = "discrete"
    /\ IF \E i \in 1..Len(args.domain) : args.domain[i] = <<>>
       THEN /\ Raise("ValueError")
            /\ UNCHANGED <<x, width>>
       ELSE /\ \E v \in Vectors([i \in 1..Len(args.domain) |-> Range(args.domain[i])]) :
                  /\ x' = v
                  /\ width' = ItemWidth(v)
            /\ pc' = "init_fun"
            /\ err' = err
    /\ UNCHANGED <<args, fun, k, temp, visit_scale, x_pre, x_new, fun_new,
                   p, rn, accept, calls, evaluated, result, output_file, hist,
                   wrap, boltz, db>>

\* line 191: the cost of the initial vector; an exception of f leaves the call
InitialEval ==
    /\ pc = "init_fun"
    /\ calls' = calls + 1
    /\ evaluated' = x
    /\ IF FRaises(args, x)
       THEN Raise("FError") /\ UNCHANGED <<fun, output_file, hist>>
       ELSE /\ fun' = CostFn(args.domain_type, x)
            /\ output_file' = IF args.filename # "None"
                               THEN [state |-> "open", headers |-> 1, records |-> <<>>]
                               ELSE output_file
            /\ hist' = [last |-> <<x, fun'>>, best |-> <<x, fun'>>]
            /\ pc' = "loop"
            /\ err' = err
    /\ UNCHANGED <<args, x, k, temp, visit_scale, x_pre, x_new, fun_new,
                   p, rn, accept, width, result, wrap, boltz, db>>

\* line 206: the loop goes on while k is in range(niter)
InLoop == pc = "loop" /\ k < args.niter

\* lines 208-220 raise: line 214 divides k by niter-1, line 219 divides temp by
\* init_temp (temp is assigned by then)
ProposeRaises ==
    /\ InLoop
    /\ \/ /\ args.decay_type = "linear"
          /\ args.niter - 1 = 0
          /\ temp' = temp
       \/ /\ ~(args.decay_type = "linear" /\ args.niter - 1 = 0)
          /\ args.init_temp = 0
          /\ temp' = Temperature(args, k)
    /\ Raise("ZeroDivisionError")
    /\ UNCHANGED <<args, x, fun, k, visit_scale, x_pre, x_new, fun_new,
                   p, rn, accept, width, calls, evaluated, result, output_file, hist,
                   wrap, boltz, db>>

\* lines 208-220 pass
ScheduleDefined ==
    /\ ~(args.decay_type = "linear" /\ args.niter - 1 = 0)
    /\ args.init_temp # 0

\* '{:.6f}'.format(r) of line 250: r in millionths, rounded to the nearest
Micro == 1000000

Fmt6(r) ==
    LET q == (Abs(r.n) * Micro) \div r.d
        rest == (Abs(r.n) * Micro) % r.d
    IN  Sign(r.n) * (IF 2 * rest >= r.d THEN q + 1 ELSE q)

\* a record that has fun_new in the column of fun and fun in that of fun_new
TraceRecordSwapped(kk, t, f, xs, fn, xn, pp, r, acc) ==
    [k |-> kk, temp |-> Fmt6(t), fun |-> Fmt6(Rat(fn, 1)), x |-> xs,
     fun_new |-> Fmt6(Rat(f, 1)), x_new |-> xn,
     p |-> Fmt6(Rat(pp, PScale)), rn |-> Fmt6(Rat(r, PScale)), accept |-> acc]

\* lines 250-253: the line of step kk (its time column left out): k, temp,
\* fun, x, fun_new, x_new, p, rn, accept; the numbers but k in '{:.6f}'
TraceRecord(kk, t, f, xs, fn, xn, pp, r, acc) ==
    [k |-> kk, temp |-> Fmt6(t), fun |-> Fmt6(Rat(f, 1)), x |-> xs,
     fun_new |-> Fmt6(Rat(fn, 1)), x_new |-> xn,
     p |-> Fmt6(Rat(pp, PScale)), rn |-> Fmt6(Rat(r, PScale)), accept |-> acc]

\* lines 249-255: with a filename the line is written and flushed
WriteRecord(file, rec) ==
    IF args.filename # "None"
    THEN [file EXCEPT !.records = Append(file.records, rec)]
    ELSE file

\* a judging step that catches an exception of f, takes a large cost in its
\* place and goes on
JudgeWithFallback(v, r) ==
    /\ fun_new' = IF FRaises(args, v) THEN 1000 ELSE CostFn(args.domain_type, v)
    /\ calls' = calls + 1
    /\ evaluated' = v
    /\ IF temp'.n = 0
       THEN /\ Raise("ZeroDivisionError")
            /\ UNCHANGED <<p, rn, accept, output_file>>
       ELSE /\ p' = AcceptBoltzmann(fun_new' - fun, temp')
            /\ rn' = r
            /\ accept' = (p' >= rn')
            /\ output_file' = WriteRecord(output_file,
                                  TraceRecord(k, temp', fun, x, fun_new', v,
                                              p', rn', accept'))
            /\ pc' = "update"
            /\ err' = err

\* lines 235-243: the cost of candidate v, the acceptance probability, the draw
\* r and the accept switch; an exception of f (line 236) leaves the call;
\* line 56 divides by temp
Judge(v, r) ==
    /\ calls' = calls + 1
    /\ evaluated' = v
    /\ IF FRaises(args, v)
       THEN /\ Raise("FError")
            /\ UNCHANGED <<fun_new, p, rn, accept, output_file>>
       ELSE /\ fun_new' = CostFn(args.domain_type, v)
            /\ IF temp'.n = 0
               THEN /\ Raise("ZeroDivisionError")
                    /\ UNCHANGED <<p, rn, accept, output_file>>
               ELSE /\ p' = AcceptBoltzmann(fun_new' - fun, temp')
                    /\ rn' = r
                    /\ accept' = (p' >= rn')
                    /\ output_file' = WriteRecord(output_file,
                                          TraceRecord(k, temp', fun, x, fun_new', v,
                                                      p', rn', accept'))
                    /\ pc' = "update"
                    /\ err' = err

\* np.random.random() of line 242 is in [0, 1): some of the draws
RnDraws == {0, PScale \div 2, PScale - 1}

\* lines 208-243, continuous: x plus a normal draw per dimension (the scale is
\* positive, min_visit_scale being positive), wrapped to the domain
ProposeContinuous ==
    /\ InLoop
    /\ ScheduleDefined
    /\ args.domain_type = "continuous"
    /\ temp' = Temperature(args, k)
    /\ visit_scale' = VisitScale(args, temp')
    /\ \E d \in [1..Len(args.domain) -> (-MaxPert)..MaxPert], r \in RnDraws :
          /\ x_pre' = [i \in 1..Len(args.domain) |-> x[i] + d[i]]
          /\ x_new' = PeriodicWrap(x_pre', args.domain).new_xs
          /\ Judge(x_new', r)
    /\ UNCHANGED <<args, x, fun, k, width, result, hist, wrap, boltz, db>>

\* lines 208-243, discrete: round(visit_scale) swaps on a copy of x
ProposeDiscrete ==
    /\ InLoop
    /\ ScheduleDefined
    /\ args.domain_type = "discrete"
    /\ temp' = Temperature(args, k)
    /\ visit_scale' = VisitScale(args, temp')
    /\ \E picks \in [1..PyRound(visit_scale') -> Picks(args.domain)], r \in RnDraws :
          /\ x_new' = ApplySwaps(x, picks, width)
          /\ Judge(x_new', r)
    /\ UNCHANGED <<args, x, fun, k, x_pre, width, result, hist, wrap, boltz, db>>

\* the history after the update of a step: an accepted candidate is the
\* latest accepted, and the best when its cost is below the best so far
HistAfterUpdate ==
    IF accept
    THEN [last |-> <<x_new, fun_new>>,
          best |-> IF fun_new < hist.best[2] THEN <<x_new, fun_new>> ELSE hist.best]
    ELSE hist

\* an update that takes the candidate whatever the accept switch says
UpdateUnconditional ==
    /\ pc = "update"
    /\ x' = x_new
    /\ fun' = fun_new
    /\ k' = k + 1
    /\ x_pre' = <<>>
    /\ pc' = "loop"
    /\ hist' = HistAfterUpdate
    /\ UNCHANGED <<args, err, temp, visit_scale, x_new, fun_new,
                   p, rn, accept, width, calls, evaluated, result, output_file,
                   wrap, boltz, db>>

\* an update that takes the candidate and keeps the cost
UpdateVectorOnly ==
    /\ pc = "update"
    /\ x' = (IF accept THEN x_new ELSE x)
    /\ fun' = fun
    /\ k' = k + 1
    /\ x_pre' = <<>>
    /\ pc' = "loop"
    /\ hist' = HistAfterUpdate
    /\ UNCHANGED <<args, err, temp, visit_scale, x_new, fun_new,
                   p, rn, accept, width, calls, evaluated, result, output_file,
                   wrap, boltz, db>>

\* lines 257-260: update vector and function values; then the next k
Update ==
    /\ pc = "update"
    /\ IF accept
       THEN x' = x_new /\ fun' = fun_new
       ELSE x' = x /\ fun' = fun
    /\ k' = k + 1
    /\ x_pre' = <<>>
    /\ pc' = "loop"
    /\ hist' = HistAfterUpdate
    /\ UNCHANGED <<args, err, temp, visit_scale, x_new, fun_new,
                   p, rn, accept, width, calls, evaluated, result, output_file,
                   wrap, boltz, db>>

\* a return of the best state that has been current
ReturnBest ==
    /\ pc = "loop"
    /\ ~(k < args.niter)
    /\ result' = hist.best
    /\ output_file' = IF args.filename # "None"
                       THEN [output_file EXCEPT !.state = "closed"]
                       ELSE output_file
    /\ pc' = "done"
    /\ UNCHANGED <<args, err, x, fun, k, temp, visit_scale, x_pre, x_new, fun_new,
                   p, rn, accept, width, calls, evaluated, hist, wrap, boltz, db>>

\* lines 262-265: close the file; return {'x': x, 'fun': fun}
Return ==
    /\ pc = "loop"
    /\ ~(k < args.niter)
    /\ result' = <<x, fun>>
    /\ output_file' = IF args.filename # "None"
                       THEN [output_file EXCEPT !.state = "closed"]
                       ELSE output_file
    /\ pc' = "done"
    /\ UNCHANGED <<args, err, x, fun, k, temp, visit_scale, x_pre, x_new, fun_new,
                   p, rn, accept, width, calls, evaluated, hist,
                   wrap, boltz, db>>

Next ==
    \/ CheckArgs
    \/ DecayFac
    \/ InitialVectorContinuous
    \/ InitialVectorDiscrete
    \/ InitialEval
    \/ ProposeRaises
    \/ ProposeContinuous
    \/ ProposeDiscrete
    \/ Update
    \/ Return

Spec == Init /\ [][Next]_vars

\* ------------------------------------------------- calls with a filename

\* calls that write their steps to a file: one continuous and one discrete
\* domain, a usual and a zero init_temp
TraceArgsSet ==
    { [a EXCEPT !.filename = "steps.txt"] :
        a \in { b \in ArgsSet :
                    /\ b.domain \in { << <<0, 3>> >>, << <<"a", "b", "d">>, <<"c", "d">> >> }
                    /\ b.init_temp \in {8, 0}
                    /\ ~b.f_partial } }

InitTrace ==
    (\E a \in TraceArgsSet : Entry(a)) /\ wrap = NoWrap /\ boltz = NoBoltz /\ db = NoDb

SpecTrace == InitTrace /\ [][Next]_vars

\* ---------------------------------------------- _periodic_wrap on its own

\* [min, max] pairs with min < max
WrapLimits == {<<2, 8>>, <<0, 3>>, <<-1, 1>>, <<-5, -2>>}

InitWrap ==
    /\ \E a \in ArgsSet :
          /\ a = (CHOOSE b \in ArgsSet : TRUE)
          /\ Entry(a)
    /\ boltz = NoBoltz
    /\ db = NoDb
    /\ \E n \in 1..2 :
          \E xs \in [1..n -> (-MaxX)..MaxX], lims \in [1..n -> WrapLimits] :
              wrap = [NoWrap EXCEPT !.pc = "call", !.xs = xs, !.xlimits = lims]

\* a call _periodic_wrap(xs, xlimits)
WrapCall ==
    /\ wrap.pc = "call"
    /\ wrap' = [wrap EXCEPT !.pc = "called",
                            !.new_xs = PeriodicWrap(wrap.xs, wrap.xlimits).new_xs,
                            !.did_wraps = PeriodicWrap(wrap.xs, wrap.xlimits).did_wraps]
    /\ UNCHANGED <<annealingVars, boltz, db>>

\* a second call, on the values the first returned
WrapAgain ==
    /\ wrap.pc = "called"
    /\ wrap' = [wrap EXCEPT !.pc = "again",
                            !.again_xs = PeriodicWrap(wrap.new_xs, wrap.xlimits).new_xs,
                            !.again_wraps = PeriodicWrap(wrap.new_xs, wrap.xlimits).did_wraps]
    /\ UNCHANGED <<annealingVars, boltz, db>>

NextWrap == WrapCall \/ WrapAgain

SpecWrap == InitWrap /\ [][NextWrap]_vars

\* ------------------------------------------- _accept_boltzmann on its own

\* cost differences: the small ones and some around 745 and beyond
DfValues == ((-MaxDf)..MaxDf) \cup {-1000, 744, 745, 746, 1000}

\* temperatures: zero and multiples of 1/TempScale and of 1 up to MaxT
BoltzTemps == {Rat(n, d) : n \in 0..MaxT, d \in {1, TempScale}}

InitBoltz ==
    /\ \E a \in ArgsSet :
          /\ a = (CHOOSE b \in ArgsSet : TRUE)
          /\ Entry(a)
    /\ wrap = NoWrap
    /\ db = NoDb
    /\ \E df \in DfValues, t \in BoltzTemps :
          boltz = [NoBoltz EXCEPT !.pc = "call", !.df = df, !.temp = t]

\* a call _accept_boltzmann(df, temp) that returns
BoltzCall ==
    /\ boltz.pc = "call"
    /\ boltz.temp.n # 0
    /\ boltz' = [boltz EXCEPT !.pc = "returned",
                              !.p = AcceptBoltzmann(boltz.df, boltz.temp),
                              !.positive = AcceptBoltzmannPositive(boltz.df, boltz.temp)]
    /\ UNCHANGED <<annealingVars, wrap, db>>

\* line 56 with temp = 0: ZeroDivisionError
BoltzRaises ==
    /\ boltz.pc = "call"
    /\ boltz.temp.n = 0
    /\ boltz' = [boltz EXCEPT !.pc = "raised"]
    /\ UNCHANGED <<annealingVars, wrap, db>>

NextBoltz == BoltzCall \/ BoltzRaises

SpecBoltz == InitBoltz /\ [][NextBoltz]_vars

\* ------------------------------------------------ the sqlite functions

\* db_dict of db_create_table, entry by entry: none; a nullable int field;
\* a field of a dtype that db_create_table does not know
DbDicts ==
    { <<>>,
      << [field |-> "num", dtype |-> "int", not_null |-> FALSE] >>,
      << [field |-> "num", dtype |-> "set", not_null |-> FALSE] >>,
      << [field |-> "date", dtype |-> "str", not_null |-> TRUE],
         [field |-> "id", dtype |-> "int", not_null |-> TRUE],
         [field |-> "other", dtype |-> "str", not_null |-> FALSE] >> }

\* lines 587-596: the declared type of a dtype ("" for an unknown one)
DbType(dtype) ==
    IF dtype = "int" THEN "INTEGER"
    ELSE IF dtype = "str" THEN "TEXT"
    ELSE IF dtype \in {"ndarray", "list", "tuple", "dict"} THEN "TEXT"
    ELSE ""

\* the columns of db_dict first, then id, date and hour
VariablesDefaultsLast(db_dict) ==
    LET fields == {db_dict[i].field : i \in 1..Len(db_dict)}
        last == << [name |-> "id", type |-> "INTEGER", not_null |-> TRUE],
                   [name |-> "date", type |-> "TEXT", not_null |-> TRUE],
                   [name |-> "hour", type |-> "TEXT", not_null |-> TRUE] >>
        IsNew(c) == c.name \notin fields
    IN  [i \in 1..Len(db_dict) |->
            [name |-> db_dict[i].field, type |-> DbType(db_dict[i].dtype),
             not_null |-> db_dict[i].not_null]]
        \o SelectSeq(last, IsNew)

\* lines 551-605: the columns of the table, id, date and hour first unless
\* db_dict has a field of that name
Variables(db_dict) ==
    LET fields == {db_dict[i].field : i \in 1..Len(db_dict)}
        first == << [name |-> "id", type |-> "INTEGER", not_null |-> TRUE],
                    [name |-> "date", type |-> "TEXT", not_null |-> TRUE],
                    [name |-> "hour", type |-> "TEXT", not_null |-> TRUE] >>
        IsNew(c) == c.name \notin fields
    IN  SelectSeq(first, IsNew) \o
        [i \in 1..Len(db_dict) |->
            [name |-> db_dict[i].field, type |-> DbType(db_dict[i].dtype),
             not_null |-> db_dict[i].not_null]]

\* the outcome of a call: the exception raised ("" for none), the value
\* returned, and the file, columns and rows after it
Outcome(d, raised, ret, file, columns, rows) ==
    [raised |-> raised, ret |-> ret, file |-> file, columns |-> columns, rows |-> rows]

Raises(d, e) == Outcome(d, e, None, d.file, d.columns, d.rows)

\* db_create_table(database_name, table_name, db_dict): CREATE TABLE IF NOT
\* EXISTS, which also makes the database file; True
db_create_table(d, db_dict) ==
    IF \E i \in 1..Len(db_dict) : DbType(db_dict[i].dtype) = ""
    THEN Raises(d, "SqliteDatabaseError")
    ELSE Outcome(d, "", TRUE, TRUE,
                 IF d.columns = <<>> THEN Variables(db_dict) ELSE d.columns,
                 d.rows)

\* lines 68-101, the file and the table being named: whether the table is
\* there; without the file db_database_exists is False and the call raises
db_table_exists(d) == d.columns # <<>>

\* db_get_column_names: the names of PRAGMA TABLE_INFO, in column order
db_get_column_names(d) == [i \in 1..Len(d.columns) |-> d.columns[i].name]

\* a table whose columns all have TEXT affinity
StoredAsText(ctype, v) ==
    IF v.type = "int" THEN StrV(IntToText(v.int)) ELSE v

\* column affinity of SQLite: what is stored when v is written to a column
\* of declared type ctype (a number becomes text in a TEXT column, the
\* text of an integer becomes that integer in an INTEGER column)
Stored(ctype, v) ==
    IF ctype = "TEXT" /\ v.type = "int" THEN StrV(IntToText(v.int))
    ELSE IF ctype = "INTEGER" /\ v.type = "str" /\ IsIntText(v.str)
         THEN IntV(TextToInt(v.str))
    ELSE v

\* the place of column id (the INTEGER PRIMARY KEY of lines 613-618, which
\* is the rowid of the table)
IdColumn(d) == CHOOSE i \in 1..Len(d.columns) : d.columns[i].name = "id"

\* the largest rowid of SQLite, 2^63 - 1 there
MaxRowId == MaxId + MaxRows + 1

\* the rowids SQLite may take for a NULL id when the largest one is in the
\* table: it draws among the positive ones that are free (0 stands for no
\* draw, the largest rowid being free)
RowIdPicks(d) ==
    IF DOMAIN d.rows # {} /\ MaxOf(DOMAIN d.rows) = MaxRowId
    THEN (1..MaxRowId) \ DOMAIN d.rows
    ELSE {0}

\* a rowid for a NULL id that fills the first gap
RowIdFirstFree(d, v, pick) ==
    IF v.type = "NoneType"
    THEN CHOOSE j \in 1..MaxRowId :
            j \notin DOMAIN d.rows /\ \A i \in 1..(j - 1) : i \in DOMAIN d.rows
    ELSE IF v.type = "int" THEN v.int
    ELSE TextToInt(v.str)

\* the rowid of an entry whose id is v: NULL takes the one after the
\* largest in the table, and the draw when the largest is MaxRowId
RowId(d, v, pick) ==
    IF v.type = "NoneType"
    THEN (IF DOMAIN d.rows = {} THEN 1
          ELSE IF MaxOf(DOMAIN d.rows) < MaxRowId THEN MaxOf(DOMAIN d.rows) + 1
          ELSE pick)
    ELSE IF v.type = "int" THEN v.int
    ELSE TextToInt(v.str)

\* the entry stored for values (in column order) under rowid idn
StoredRow(d, values, idn) ==
    [i \in 1..Len(values) |->
        IF i = IdColumn(d) THEN IntV(idn) ELSE Stored(d.columns[i].type, values[i])]

\* an INSERT OR REPLACE: an entry with the same id is overwritten
InsertOrReplace(d, values, pick) ==
    LET v == values[IdColumn(d)]
        idn == RowId(d, v, pick)
    IN  IF \/ v.type = "str" /\ ~IsIntText(v.str)
           \/ \E i \in 1..Len(values) :
                  i # IdColumn(d) /\ d.columns[i].not_null /\ values[i] = None
        THEN Raises(d, "IntegrityError")
        ELSE Outcome(d, "", IntV(idn), d.file, d.columns,
                     [j \in DOMAIN d.rows \cup {idn} |->
                         IF j = idn THEN StoredRow(d, values, idn) ELSE d.rows[j]])

\* lines 661-675: INSERT INTO table VALUES (?, ...); cur.lastrowid; commit.
\* A text id that is no integer (datatype mismatch), a NULL in a NOT NULL
\* column and an id that is in the table (PRIMARY KEY) raise, nothing
\* being committed
Insert(d, values, pick) ==
    LET v == values[IdColumn(d)]
        idn == RowId(d, v, pick)
    IN  IF \/ v.type = "str" /\ ~IsIntText(v.str)
           \/ \E i \in 1..Len(values) :
                  i # IdColumn(d) /\ d.columns[i].not_null /\ values[i] = None
           \/ idn \in DOMAIN d.rows
        THEN Raises(d, "IntegrityError")
        ELSE Outcome(d, "", IntV(idn), d.file, d.columns,
                     [j \in DOMAIN d.rows \cup {idn} |->
                         IF j = idn THEN StoredRow(d, values, idn) ELSE d.rows[j]])

\* db_save(database_name, table_name, values_dict), lines 627-675
db_save(d, values_dict, pick) ==
    IF ~db_table_exists(d) THEN Raises(d, "SqliteDatabaseError")
    ELSE IF Cardinality(DOMAIN values_dict) = 0 THEN Raises(d, "SqliteDatabaseError")
    ELSE IF Cardinality(DOMAIN values_dict) # Len(db_get_column_names(d))
         THEN Raises(d, "SqliteDatabaseError")
    ELSE IF \E i \in 1..Len(d.columns) : d.columns[i].name \notin DOMAIN values_dict
         THEN Raises(d, "KeyError")
    ELSE Insert(d, [i \in 1..Len(d.columns) |-> values_dict[d.columns[i].name]], pick)

\* db_get_last_id(database_name, table_name), lines 203-229: SELECT MAX(id),
\* None for a table without entries
db_get_last_id(d) ==
    IF ~db_table_exists(d) THEN Raises(d, "SqliteDatabaseError")
    ELSE Outcome(d, "", IF DOMAIN d.rows = {} THEN None ELSE IntV(MaxOf(DOMAIN d.rows)),
                 d.file, d.columns, d.rows)

\* an UPDATE whose WHERE clause selects no entry
UpdateNoEntry(d, values, idn) ==
    Outcome(d, "", TRUE, d.file, d.columns, d.rows)

\* lines 768-783: UPDATE table SET every column, id among them, WHERE id =
\* idn; commit; True.  Without an entry of id idn nothing is changed.  A
\* NULL id or a text id that is no integer (datatype mismatch), a NULL in a
\* NOT NULL column and a new id that another entry has (PRIMARY KEY)
\* raise, nothing being committed
UpdateEntry(d, values, idn) ==
    LET v == values[IdColumn(d)]
        new_idn == IF v.type = "int" THEN v.int ELSE TextToInt(v.str)
    IN  IF idn \notin DOMAIN d.rows
        THEN Outcome(d, "", TRUE, d.file, d.columns, d.rows)
        ELSE IF \/ v.type = "NoneType"
                \/ v.type = "str" /\ ~IsIntText(v.str)
                \/ \E i \in 1..Len(values) :
                       i # IdColumn(d) /\ d.columns[i].not_null /\ values[i] = None
                \/ new_idn # idn /\ new_idn \in DOMAIN d.rows
             THEN Raises(d, "IntegrityError")
             ELSE Outcome(d, "", TRUE, d.file, d.columns,
                          [j \in (DOMAIN d.rows \ {idn}) \cup {new_idn} |->
                              IF j = new_idn THEN StoredRow(d, values, new_idn)
                              ELSE d.rows[j]])

\* db_update(database_name, table_name, values_dict, idn), lines 726-783
db_update(d, values_dict, idn) ==
    IF ~db_table_exists(d) THEN Raises(d, "SqliteDatabaseError")
    ELSE IF Cardinality(DOMAIN values_dict) = 0 THEN Raises(d, "SqliteDatabaseError")
    ELSE IF Cardinality(DOMAIN values_dict) # Len(db_get_column_names(d))
         THEN Raises(d, "SqliteDatabaseError")
    ELSE IF idn.type = "NoneType" THEN Raises(d, "SqliteDatabaseError")
    ELSE IF \E i \in 1..Len(d.columns) : d.columns[i].name \notin DOMAIN values_dict
         THEN Raises(d, "KeyError")
    ELSE UpdateEntry(d, [i \in 1..Len(d.columns) |-> values_dict[d.columns[i].name]],
                idn.int)

\* a dict without entries
EmptyDict == [c \in {} |-> None]

\* lines 707-723: the dict of the entry, column name to value
EntryDict(d, entry) ==
    [c \in {d.columns[i].name : i \in 1..Len(d.columns)} |->
        entry[CHOOSE i \in 1..Len(d.columns) : d.columns[i].name = c]]

\* db_read(database_name, table_name, idn), lines 678-723: the entry of id
\* idn, the entry of the largest id when idn is None, {} when there is none
db_read(d, idn) ==
    IF ~db_table_exists(d) THEN Raises(d, "SqliteDatabaseError")
    ELSE LET found == IF idn.type = "NoneType"
                      THEN (IF DOMAIN d.rows = {} THEN {} ELSE {MaxOf(DOMAIN d.rows)})
                      ELSE {idn.int} \cap DOMAIN d.rows
         IN  IF found = {}
             THEN Outcome(d, "", EmptyDict, d.file, d.columns, d.rows)
             ELSE Outcome(d, "", EntryDict(d, d.rows[CHOOSE j \in found : TRUE]),
                          d.file, d.columns, d.rows)

\* ids, dates and nums of a values_dict: of the type of the column and not
IdValues == {None, StrV("2"), IntV(MaxRowId)} \cup {IntV(i) : i \in 1..MaxId}

DateValues == {StrV("d"), IntV(1)}

\* <<date, num>>: a NULL num, values of the types of the columns, an int
\* date with the text of an integer as num, a NULL date
DateNumValues ==
    { <<StrV("d"), None>>, <<StrV("d"), IntV(1)>>, <<IntV(1), StrV("2")>>,
      <<None, IntV(1)>> }

\* values_dict of db_save: for three and for four columns, with a key that is
\* no column, and without entries
ValuesDicts ==
    { [id |-> i, date |-> dt, hour |-> StrV("h")] : i \in IdValues, dt \in DateValues }
    \cup { [id |-> i, date |-> dn[1], hour |-> StrV("h"), num |-> dn[2]] :
               i \in IdValues, dn \in DateNumValues }
    \cup { [id |-> IntV(1), date |-> StrV("d"), hour |-> StrV("h"), other |-> None] }
    \cup { EmptyDict }

\* idn of db_read: None and the ids a table can hold
ReadIds == {None} \cup {IntV(i) : i \in 1..MaxRowId}

\* the state after a call with outcome o
AfterCall(op, values_dict, idn, o) ==
    [file |-> o.file, columns |-> o.columns, rows |-> o.rows,
     call |-> [op |-> op, database_name |-> StrV("db"), raised |-> o.raised,
               ret |-> o.ret, values |-> values_dict, idn |-> idn]]

InitDb ==
    /\ \E a \in ArgsSet :
          /\ a = (CHOOSE b \in ArgsSet : TRUE)
          /\ Entry(a)
    /\ wrap = NoWrap
    /\ boltz = NoBoltz
    /\ db = NoDb

CallDbCreateTable ==
    /\ \E db_dict \in DbDicts :
          db' = AfterCall("db_create_table", <<>>, None, db_create_table(db, db_dict))
    /\ UNCHANGED <<annealingVars, wrap, boltz>>

CallDbSave ==
    /\ \E values_dict \in ValuesDicts, pick \in RowIdPicks(db) :
          /\ Cardinality(DOMAIN db_save(db, values_dict, pick).rows) <= MaxRows
          /\ db' = AfterCall("db_save", values_dict, None,
                             db_save(db, values_dict, pick))
    /\ UNCHANGED <<annealingVars, wrap, boltz>>

CallDbRead ==
    /\ \E idn \in ReadIds :
          db' = AfterCall("db_read", <<>>, idn, db_read(db, idn))
    /\ UNCHANGED <<annealingVars, wrap, boltz>>

CallDbGetLastId ==
    /\ db' = AfterCall("db_get_last_id", <<>>, None, db_get_last_id(db))
    /\ UNCHANGED <<annealingVars, wrap, boltz>>

\* idn of db_update: None, ids of entries and ids of none
UpdateIds == {None} \cup {IntV(i) : i \in 1..MaxId}

CallDbUpdate ==
    /\ \E values_dict \in ValuesDicts, idn \in UpdateIds :
          db' = AfterCall("db_update", values_dict, idn, db_update(db, values_dict, idn))
    /\ UNCHANGED <<annealingVars, wrap, boltz>>

NextDb == CallDbCreateTable \/ CallDbSave \/ CallDbRead \/ CallDbGetLastId

SpecDb == InitDb /\ [][NextDb]_vars

\* ------------------------------------------ the functions that only read

\* the elements of the set of integers S in ascending order
RECURSIVE Ascending(_)
Ascending(S) ==
    IF S = {} THEN <<>>
    ELSE LET m == CHOOSE i \in S : \A j \in S : i <= j
         IN  <<m>> \o Ascending(S \ {m})

\* the ids of the entries in the order of a scan of the table
Ids(d) == Ascending(DOMAIN d.rows)

ColumnIndex(d, column) ==
    CHOOSE i \in 1..Len(d.columns) : d.columns[i].name = column

\* db_get_tables(database_name), lines 40-65, the file being there: the
\* table names, of which the model keeps that of the one table it has
db_get_tables(d) ==
    Outcome(d, "", IF d.columns # <<>> THEN <<StrV("t")>> ELSE <<>>,
            d.file, d.columns, d.rows)

\* lines 146-150: the Python type of a declared type
PyType(ctype) == IF ctype = "INTEGER" THEN "int" ELSE "str"

\* db_get_column_types, lines 132-168
db_get_column_types(d) ==
    IF ~db_table_exists(d) THEN Raises(d, "SqliteDatabaseError")
    ELSE Outcome(d, "",
                 [c \in Range(db_get_column_names(d)) |->
                     PyType(d.columns[ColumnIndex(d, c)].type)],
                 d.file, d.columns, d.rows)

\* db_get_first_id, lines 171-200: SELECT MIN(id)
db_get_first_id(d) ==
    IF ~db_table_exists(d) THEN Raises(d, "SqliteDatabaseError")
    ELSE Outcome(d, "",
                 IF DOMAIN d.rows = {} THEN None
                 ELSE IntV(CHOOSE i \in DOMAIN d.rows : \A j \in DOMAIN d.rows : i <= j),
                 d.file, d.columns, d.rows)

\* None or a str without characters
NoneOrEmpty(v) == v = None \/ v = StrV("")

\* db_get_values(database_name, table_name, column), lines 268-297: SELECT
\* column FROM table, which fails for a column the table has not
db_get_values(d, column) ==
    IF ~db_table_exists(d) THEN Raises(d, "SqliteDatabaseError")
    ELSE IF NoneOrEmpty(column) THEN Raises(d, "SqliteDatabaseError")
    ELSE IF column.str \notin Range(db_get_column_names(d))
         THEN Raises(d, "OperationalError")
    ELSE Outcome(d, "",
                 [n \in 1..Len(Ids(d)) |-> d.rows[Ids(d)[n]][ColumnIndex(d, column.str)]],
                 d.file, d.columns, d.rows)

\* db_get_value(database_name, table_name, column, idn), lines 300-335
db_get_value(d, column, idn) ==
    IF ~db_table_exists(d) THEN Raises(d, "SqliteDatabaseError")
    ELSE IF NoneOrEmpty(column) THEN Raises(d, "SqliteDatabaseError")
    ELSE IF idn = None THEN Raises(d, "SqliteDatabaseError")
    ELSE IF column.str \notin Range(db_get_column_names(d))
         THEN Raises(d, "OperationalError")
    ELSE Outcome(d, "",
                 IF idn.int \in DOMAIN d.rows
                 THEN d.rows[idn.int][ColumnIndex(d, column.str)] ELSE None,
                 d.file, d.columns, d.rows)

\* str(value) of an int or a str
PyStr(v) == IF v.type = "int" THEN IntToText(v.int) ELSE v.str

\* the entries of the ids of the sequence ids as dicts of the columns names
ListOfDicts(d, names, ids) ==
    [n \in 1..Len(ids) |->
        [c \in Range(names) |-> d.rows[ids[n]][ColumnIndex(d, c)]]]

\* db_search_column(database_name, table_name, column, value), lines
\* 338-396: SELECT * WHERE column = "str(value)", the text taking the
\* affinity of the column (str(value) being no column name)
db_search_column(d, column, value) ==
    IF ~db_table_exists(d) THEN Raises(d, "SqliteDatabaseError")
    ELSE IF NoneOrEmpty(column) THEN Raises(d, "SqliteDatabaseError")
    ELSE IF value = None THEN Raises(d, "SqliteDatabaseError")
    ELSE IF column.str \notin Range(db_get_column_names(d))
         THEN Raises(d, "SqliteDatabaseError")
    ELSE LET i == ColumnIndex(d, column.str)
             found == {j \in DOMAIN d.rows :
                          d.rows[j][i] = Stored(d.columns[i].type, StrV(PyStr(value)))}
         IN  Outcome(d, "", ListOfDicts(d, db_get_column_names(d), Ascending(found)),
                     d.file, d.columns, d.rows)

\* ----------------------------------------------------------- db_search_table

\* the filter of the model that has one '~' between two integers: from 1
\* to 2
RangeFilters == {"1~2"}

\* a filter that int() rejects and that is SQL after a column name: the
\* column equals 1, or column num equals 2
OrFilter == "= 1 OR num = 2"

\* lines 456-474: the condition that filt adds for the column of index i, as
\* the truth values for the entry of the terms that OR separates in it.  The
\* texts of the model have one character, so that LIKE "%filt%" holds when
\* the text is filt
Terms(d, entry, i, filt) ==
    LET v == entry[i] IN
    IF PyType(d.columns[i].type) = "str" THEN << v.type = "str" /\ v.str = filt >>
    ELSE IF filt \in RangeFilters
         THEN << v.type = "int" /\ 1 <= v.int /\ v.int <= 2 >>
    ELSE IF filt = "none" THEN << v = None >>
    ELSE IF filt = OrFilter
         THEN << v = IntV(1), entry[ColumnIndex(d, "num")] = IntV(2) >>
    ELSE << v = IntV(TextToInt(filt)) >>

\* lines 462-474: the condition is no SQL for the table: two '~', text after
\* the column name that is neither an operator nor a number, a column that
\* the table has not
MalformedCondition(d, i, filt) ==
    /\ filt # ""
    /\ PyType(d.columns[i].type) # "str"
    /\ filt \notin RangeFilters
    /\ filt # "none"
    /\ ~IsIntText(filt)
    /\ filt = OrFilter => "num" \notin Range(db_get_column_names(d))

\* the value of conditions joined by AND, conds[n] being the terms of the
\* n-th one, as SQL reads the text: AND binds tighter than OR.  group is the
\* value of the conjunction that is being read
RECURSIVE WhereFrom(_, _, _)
WhereFrom(conds, n, group) ==
    IF n > Len(conds) THEN group
    ELSE IF Len(conds[n]) = 1 THEN WhereFrom(conds, n + 1, group /\ conds[n][1])
    ELSE (group /\ conds[n][1]) \/ WhereFrom(conds, n + 1, conds[n][2])

Where(conds) == WhereFrom(conds, 1, TRUE)

\* the first n elements of the sequence s, all of them for a negative n
FirstN(s, n) == IF n < 0 \/ n >= Len(s) THEN s ELSE SubSeq(s, 1, n)

\* the last n elements of the sequence s, all of them for a negative n
LastN(s, n) == IF n < 0 \/ n >= Len(s) THEN s ELSE SubSeq(s, Len(s) - n + 1, Len(s))

\* lines 453-492: the conditions of the WHERE clause for the entry, in the
\* order of the text: one for each filter that is not '', then id >=
\* initial_idn
Conditions(d, entry, column_names, filters_list, initial_idn) ==
    LET IsSet(n) == filters_list[n] # ""
        set == SelectSeq([n \in 1..Len(column_names) |-> n], IsSet)
    IN  [m \in 1..Len(set) |->
            Terms(d, entry, ColumnIndex(d, column_names[set[m]]), filters_list[set[m]])]
        \o (IF initial_idn # None
            THEN << << entry[IdColumn(d)].int >= initial_idn.int >> >> ELSE <<>>)

\* db_search_table(database_name, table_name, columns, filters, initial_idn,
\* max_nr_lines), lines 399-528; <<>> stands for None and for an empty list
db_search_table(d, columns, filters, initial_idn, max_nr_lines) ==
    IF ~db_table_exists(d) THEN Raises(d, "SqliteDatabaseError")
    ELSE
    LET cols == IF columns = <<>> THEN db_get_column_names(d) ELSE columns
        flts == IF filters = <<>> THEN [i \in 1..Len(cols) |-> ""] ELSE filters
        column_names == IF "id" \notin Range(cols) THEN <<"id">> \o cols ELSE cols
        filters_list == IF "id" \notin Range(cols) THEN <<"">> \o flts ELSE flts
        limit == IF max_nr_lines = None THEN -1 ELSE max_nr_lines.int
    IN  IF Len(filters_list) # Len(column_names) THEN Raises(d, "SqliteDatabaseError")
        ELSE IF \E n \in 1..Len(column_names) :
                    column_names[n] \notin Range(db_get_column_names(d))
             THEN Raises(d, "SqliteDatabaseError")
        ELSE IF \E n \in 1..Len(column_names) :
                    MalformedCondition(d, ColumnIndex(d, column_names[n]), filters_list[n])
             THEN Raises(d, "OperationalError")
        ELSE
        LET found == {j \in DOMAIN d.rows :
                         Where(Conditions(d, d.rows[j], column_names, filters_list,
                                          initial_idn))}
            ids == IF initial_idn # None THEN FirstN(Ascending(found), limit)
                   ELSE LastN(Ascending(found), limit)
        IN  Outcome(d, "", ListOfDicts(d, column_names, ids),
                    d.file, d.columns, d.rows)

\* -------------------------------------------- db_update on filled tables

\* the database after db_create_table with an int field num
CreatedDb ==
    AfterCall("db_create_table", <<>>, None,
              db_create_table(NoDb, << [field |-> "num", dtype |-> "int",
                                        not_null |-> FALSE] >>))

\* the database d after a db_save of values_dict
SavedDb(d, values_dict) ==
    AfterCall("db_save", values_dict, None, db_save(d, values_dict, 0))

\* values_dict of id i with values of the types of the columns
TypedDicts(i) ==
    { [id |-> IntV(i), date |-> StrV("d"), hour |-> StrV("h"), num |-> n] :
        n \in {None, IntV(1)} }

\* the table without entries, with the entry of id 1, with those of ids 1, 2
SeedDbs ==
    {CreatedDb}
    \cup { SavedDb(CreatedDb, v1) : v1 \in TypedDicts(1) }
    \cup { SavedDb(SavedDb(CreatedDb, v1), v2) :
               v1 \in TypedDicts(1), v2 \in TypedDicts(2) }

InitDbUpdate ==
    /\ \E a \in ArgsSet :
          /\ a = (CHOOSE b \in ArgsSet : TRUE)
          /\ Entry(a)
    /\ wrap = NoWrap
    /\ boltz = NoBoltz
    /\ db \in SeedDbs

NextDbUpdate == CallDbUpdate \/ CallDbRead

SpecDbUpdate == InitDbUpdate /\ [][NextDbUpdate]_vars

\* ------------------------------------------ db_search_table on filled tables

\* columns and filters of db_search_table: of equal and of unequal length,
\* for columns of either type and for a column that the table has not
ColumnsArgs == {<<>>, <<"num">>, <<"date">>, <<"num", "date">>, <<"x">>}

FiltersArgs ==
    {<<>>, <<"1">>, <<"d">>, <<"none">>, <<"1~2">>, <<OrFilter>>,
     <<"1", "d">>, <<OrFilter, "d">>, <<"=">>}

InitialIds == {None, IntV(1), IntV(2)}

MaxNrLines == {None, IntV(0), IntV(1)}

CallDbSearchTable ==
    /\ \E columns \in ColumnsArgs, filters \in FiltersArgs,
          initial_idn \in InitialIds, max_nr_lines \in MaxNrLines :
          db' = AfterCall("db_search_table", <<columns, filters, max_nr_lines>>,
                          initial_idn,
                          db_search_table(db, columns, filters, initial_idn,
                                          max_nr_lines))
    /\ UNCHANGED <<annealingVars, wrap, boltz>>

NextDbSearch == CallDbSearchTable \/ CallDbRead

SpecDbSearch == InitDbUpdate /\ [][NextDbSearch]_vars

\* ------------------------------------------- calls that name the database

\* database_name: None, '', and the name of the database file of the model
DatabaseNames == {None, StrV(""), StrV("db")}

\* a function that connects to the database before it looks for the file:
\* sqlite3.connect makes the file
OnDatabaseConnecting(d, database_name, o) ==
    IF NoneOrEmpty(database_name) THEN Raises(d, "SqliteDatabaseError")
    ELSE [o EXCEPT !.file = TRUE]

\* lines 23-37 and 79-81, the start of every function but db_create_table
\* (it calls db_table_exists first, db_get_tables calls db_database_exists):
\* SqliteDatabaseError for the name None or '' and for a name that is no
\* file, else the outcome o of the rest of the function
OnDatabase(d, database_name, o) ==
    IF NoneOrEmpty(database_name) THEN Raises(d, "SqliteDatabaseError")
    ELSE IF ~d.file THEN Raises(d, "SqliteDatabaseError")
    ELSE o

\* the state after a call with outcome o that named the database
AfterNamedCall(op, database_name, values, idn, o) ==
    [AfterCall(op, values, idn, o) EXCEPT !.call.database_name = database_name]

\* db_create_table for a table that is not the one of the model: the file
\* is made, the table of the model is as before
CallDbCreateOtherTable ==
    /\ db' = AfterCall("db_create_table", <<>>, None,
                       Outcome(db, "", TRUE, TRUE, db.columns, db.rows))
    /\ UNCHANGED <<annealingVars, wrap, boltz>>

NamedDbGetTables ==
    /\ \E database_name \in DatabaseNames :
          db' = AfterNamedCall("db_get_tables", database_name, <<>>, None,
                               OnDatabase(db, database_name, db_get_tables(db)))
    /\ UNCHANGED <<annealingVars, wrap, boltz>>

NamedDbTableExists ==
    /\ \E database_name \in DatabaseNames :
          db' = AfterNamedCall("db_table_exists", database_name, <<>>, None,
                   OnDatabase(db, database_name,
                              Outcome(db, "", db_table_exists(db),
                                      db.file, db.columns, db.rows)))
    /\ UNCHANGED <<annealingVars, wrap, boltz>>

NamedDbGetColumnNames ==
    /\ \E database_name \in DatabaseNames :
          db' = AfterNamedCall("db_get_column_names", database_name, <<>>, None,
                   OnDatabase(db, database_name,
                              IF ~db_table_exists(db)
                              THEN Raises(db, "SqliteDatabaseError")
                              ELSE Outcome(db, "", db_get_column_names(db),
                                           db.file, db.columns, db.rows)))
    /\ UNCHANGED <<annealingVars, wrap, boltz>>

NamedDbGetColumnTypes ==
    /\ \E database_name \in DatabaseNames :
          db' = AfterNamedCall("db_get_column_types", database_name, <<>>, None,
                               OnDatabase(db, database_name, db_get_column_types(db)))
    /\ UNCHANGED <<annealingVars, wrap, boltz>>

NamedDbGetFirstId ==
    /\ \E database_name \in DatabaseNames :
          db' = AfterNamedCall("db_get_first_id", database_name, <<>>, None,
                               OnDatabase(db, database_name, db_get_first_id(db)))
    /\ UNCHANGED <<annealingVars, wrap, boltz>>

NamedDbGetLastId ==
    /\ \E database_name \in DatabaseNames :
          db' = AfterNamedCall("db_get_last_id", database_name, <<>>, None,
                               OnDatabase(db, database_name, db_get_last_id(db)))
    /\ UNCHANGED <<annealingVars, wrap, boltz>>

\* column: None, '', columns of the table
ColumnArgs == {None, StrV(""), StrV("id"), StrV("num")}

\* idn of the calls that name the database
NamedIds == {None, IntV(1)}

NamedDbGetValues ==
    /\ \E database_name \in DatabaseNames, column \in ColumnArgs :
          db' = AfterNamedCall("db_get_values", database_name, <<column>>, None,
                               OnDatabase(db, database_name, db_get_values(db, column)))
    /\ UNCHANGED <<annealingVars, wrap, boltz>>

NamedDbGetValue ==
    /\ \E database_name \in DatabaseNames, column \in ColumnArgs, idn \in NamedIds :
          db' = AfterNamedCall("db_get_value", database_name, <<column>>, idn,
                               OnDatabase(db, database_name,
                                          db_get_value(db, column, idn)))
    /\ UNCHANGED <<annealingVars, wrap, boltz>>

NamedDbSearchColumn ==
    /\ \E database_name \in DatabaseNames, column \in ColumnArgs, value \in NamedIds :
          db' = AfterNamedCall("db_search_column", database_name, <<column, value>>,
                               None,
                               OnDatabase(db, database_name,
                                          db_search_column(db, column, value)))
    /\ UNCHANGED <<annealingVars, wrap, boltz>>

NamedDbSearchTable ==
    /\ \E database_name \in DatabaseNames, columns \in {<<>>, <<"num">>},
          filters \in {<<>>, <<"1">>}, initial_idn \in NamedIds :
          db' = AfterNamedCall("db_search_table", database_name,
                               <<columns, filters, None>>, initial_idn,
                               OnDatabase(db, database_name,
                                          db_search_table(db, columns, filters,
                                                          initial_idn, None)))
    /\ UNCHANGED <<annealingVars, wrap, boltz>>

\* values_dict of the calls that name the database
NamedDicts == TypedDicts(1) \cup TypedDicts(2) \cup {EmptyDict}

NamedDbSave ==
    /\ \E database_name \in DatabaseNames, values_dict \in NamedDicts :
          db' = AfterNamedCall("db_save", database_name, values_dict, None,
                               OnDatabase(db, database_name,
                                          db_save(db, values_dict, 0)))
    /\ UNCHANGED <<annealingVars, wrap, boltz>>

NamedDbRead ==
    /\ \E database_name \in DatabaseNames, idn \in NamedIds :
          db' = AfterNamedCall("db_read", database_name, <<>>, idn,
                               OnDatabase(db, database_name, db_read(db, idn)))
    /\ UNCHANGED <<annealingVars, wrap, boltz>>

NamedDbUpdate ==
    /\ \E database_name \in DatabaseNames, values_dict \in NamedDicts,
          idn \in NamedIds :
          db' = AfterNamedCall("db_update", database_name, values_dict, idn,
                               OnDatabase(db, database_name,
                                          db_update(db, values_dict, idn)))
    /\ UNCHANGED <<annealingVars, wrap, boltz>>

NextDbNamed ==
    \/ CallDbCreateOtherTable
    \/ CallDbCreateTable
    \/ NamedDbGetTables
    \/ NamedDbTableExists
    \/ NamedDbGetColumnNames
    \/ NamedDbGetColumnTypes
    \/ NamedDbGetFirstId
    \/ NamedDbGetLastId
    \/ NamedDbGetValues
    \/ NamedDbGetValue
    \/ NamedDbSearchColumn
    \/ NamedDbSearchTable
    \/ NamedDbSave
    \/ NamedDbRead
    \/ NamedDbUpdate

SpecDbNamed == InitDb /\ [][NextDbNamed]_vars

\* ---------------------------------------------- DatabaseDocument.db_save

\* the fields of a db_dict
Fields(db_dict) == {db_dict[i].field : i \in 1..Len(db_dict)}

\* the db_dict of a document class: an int field num, and the fields date,
\* id and other
DocDicts ==
    { << [field |-> "num", dtype |-> "int", not_null |-> FALSE] >>,
      << [field |-> "date", dtype |-> "str", not_null |-> TRUE],
         [field |-> "id", dtype |-> "int", not_null |-> TRUE],
         [field |-> "other", dtype |-> "str", not_null |-> FALSE] >> }

\* the attributes of the document, by the field they are mapped to: the
\* value that __setattr__ keeps for the dtype of the field
DocAttrs(db_dict) ==
    { a \in [Fields(db_dict) -> {None, StrV("d"), IntV(1)}] :
        \A i \in 1..Len(db_dict) :
            \/ a[db_dict[i].field] = None
            \/ a[db_dict[i].field].type = db_dict[i].dtype }

\* database.py lines 485-523: values_dict.  id is None, date and hour are
\* those of the clock ("d" and "h" here) unless the document has an
\* attribute for them that is not None, a field has the value of its
\* attribute
DocValuesDict(db_dict, attrs) ==
    [c \in {"id", "date", "hour"} \cup Fields(db_dict) |->
        IF c = "id" THEN None
        ELSE IF c = "date"
             THEN (IF c \in Fields(db_dict) /\ attrs[c] # None THEN attrs[c] ELSE StrV("d"))
        ELSE IF c = "hour"
             THEN (IF c \in Fields(db_dict) /\ attrs[c] # None THEN attrs[c] ELSE StrV("h"))
        ELSE attrs[c]]

\* DatabaseDocument.db_save() with mongo False, database.py lines 478-538:
\* db_save of sqlitedatabase.py, then setattr(self, reverse_db_dict['id'],
\* idn), a KeyError when no attribute is mapped to 'id'
DocumentDbSave(d, db_dict, attrs, pick) ==
    LET o == db_save(d, DocValuesDict(db_dict, attrs), pick)
    IN  IF o.raised # "" THEN o
        ELSE IF "id" \notin Fields(db_dict)
             THEN Outcome(d, "KeyError", None, o.file, o.columns, o.rows)
        ELSE o

CallDocumentDbSave ==
    /\ \E db_dict \in DocDicts, pick \in RowIdPicks(db) :
          \E attrs \in DocAttrs(db_dict) :
              /\ Cardinality(DOMAIN DocumentDbSave(db, db_dict, attrs, pick).rows)
                    <= MaxRows
              /\ db' = AfterCall("DatabaseDocument.db_save", <<db_dict, attrs>>, None,
                                 DocumentDbSave(db, db_dict, attrs, pick))
    /\ UNCHANGED <<annealingVars, wrap, boltz>>

NextDbDocument == CallDbCreateTable \/ CallDocumentDbSave \/ CallDbRead

SpecDbDocument == InitDb /\ [][NextDbDocument]_vars

\* ------------------------------------------------------------- the claims

\* the arguments the specification calls valid, argument by argument
ValidDecay(a) == a.decay_type \in {"exp", "linear"}

ValidTemps(a) == a.init_temp > 0 /\ a.final_temp > 0

ValidNiter(a) == a.niter >= 1

ValidDomain(a) ==
    IF a.domain_type = "continuous"
    THEN \A i \in 1..Len(a.domain) : a.domain[i][1] < a.domain[i][2]
    ELSE \A i \in 1..Len(a.domain) : a.domain[i] # <<>>

ValidArgs(a) == ValidDecay(a) /\ ValidTemps(a) /\ ValidNiter(a) /\ ValidDomain(a)

\* min(1, exp(-df/t)) in units of 1/PScale: exp(a) >= 1 exactly when a >= 0
MinOneExp(df, t) ==
    IF RatLt(Rat(-df * t.d, t.n), Rat(0, 1))
    THEN NpExpNeg(Rat(-df * t.d, t.n))
    ELSE PScale

\* C1: a step that judges a candidate leaves x and fun as they were and sets
\* accept to (min(1, exp(-(fun_new - fun)/temp)) >= rn); the update that
\* follows makes x and fun the candidate and its cost when accept is set and
\* leaves both as they were otherwise; a step that ends in an exception
\* alters neither.
C1Step ==
    /\ (pc = "loop" /\ pc' = "update") =>
          /\ p' = MinOneExp(fun_new' - fun, temp')
          /\ accept' = (p' >= rn')
          /\ x' = x /\ fun' = fun
    /\ (pc = "update") =>
          /\ accept => (x' = x_new /\ fun' = fun_new)
          /\ ~accept => (x' = x /\ fun' = fun)
    /\ (pc = "loop" /\ pc' = "error") => (x' = x /\ fun' = fun)

C2ImprovementAlwaysAccepted ==
    (ValidDecay(args) /\ ValidNiter(args) /\ ValidDomain(args)
        /\ pc = "update" /\ fun_new <= fun) => (p = PScale /\ accept)

\* C3: a call with valid arguments and niter >= 1 raises nothing, makes one
\* call of f per step, on the candidate of that step, and returns the x and
\* fun it holds after step niter-1.
C3RunsNiterSteps ==
    (ValidArgs(args) /\ args.niter >= 1 /\ ~args.f_partial) =>
        /\ pc # "error"
        /\ pc = "update" => (evaluated = x_new /\ calls = k + 2)
        /\ pc = "loop" => calls = k + 1
        /\ pc = "done" => (k = args.niter /\ calls = args.niter + 1
                              /\ result = <<x, fun>>)

\* C4: a call with init_temp or final_temp below the minimum (zero and
\* negative values are) never calls f, runs no step and returns nothing
\* (stated for calls whose other arguments are valid, niter being 2 or more).
C4LowTemperatureRejected ==
    (ValidDecay(args) /\ args.niter >= 2 /\ ValidDomain(args)
        /\ (args.init_temp <= 0 \/ args.final_temp <= 0)) =>
        (calls = 0 /\ pc \notin {"loop", "update", "done"} /\ result = <<>>)

\* C5: a call with niter < 1 never calls f and returns nothing (stated for
\* calls whose other arguments are valid).
C5NoIterationsRejected ==
    (ValidDecay(args) /\ ValidTemps(args) /\ ValidDomain(args)
        /\ args.niter < 1) =>
        (calls = 0 /\ pc # "done" /\ result = <<>>)

\* C6: a call with a continuous dimension with min >= max, or a discrete
\* dimension without options, never calls f, runs no step and returns
\* nothing (stated for calls whose other arguments are valid, niter being 2
\* or more).
C6BadDomainRejected ==
    (ValidDecay(args) /\ ValidTemps(args) /\ args.niter >= 2
        /\ ~ValidDomain(args)) =>
        (calls = 0 /\ pc \notin {"loop", "update", "done"} /\ result = <<>>)

\* C7: a call with a decay_type other than 'exp' and 'linear' ends in a
\* ValueError at the check: no initial vector is drawn, f is not called, no
\* temperature is computed, no step runs and nothing is returned.
C7UnknownDecayRaises ==
    args.decay_type \notin {"exp", "linear"} =>
        /\ pc \in {"check", "error"}
        /\ pc = "error" => err = "ValueError"
        /\ x = <<>> /\ calls = 0 /\ k = 0
        /\ temp = NoRat /\ visit_scale = NoRat
        /\ result = <<>>

C7Witness ==
    pc = "error" /\ args.decay_type = "cubic" /\ err = "ValueError"

\* v has an option of every dimension's option list
InOptions(v, domain) ==
    \A i \in 1..Len(v) : v[i] \in Range(domain[i])

\* C8: for a discrete domain every component of x and of the candidate is
\* one of the options of its dimension (stated for calls with valid
\* arguments).
C8DiscreteStaysInDomain ==
    (ValidArgs(args) /\ args.domain_type = "discrete") =>
        (InOptions(x, args.domain) /\ InOptions(x_new, args.domain))

\* v lies within the limits of every dimension
InLimits(v, domain) ==
    \A i \in 1..Len(v) : domain[i][1] <= v[i] /\ v[i] <= domain[i][2]

\* C9: for a continuous domain with min < max in every dimension every
\* component of x and of the wrapped candidate lies within [min, max].
C9ContinuousStaysInDomain ==
    (args.domain_type = "continuous" /\ ValidDomain(args)) =>
        (InLimits(x, args.domain) /\ InLimits(x_new, args.domain))

\* a candidate was wrapped from more than a period beyond a limit, on either
\* side, and accepted
C9Witness ==
    /\ args.domain_type = "continuous" /\ ValidDomain(args)
    /\ pc = "update" /\ accept
    /\ \E i \in 1..Len(x_pre) :
          x_pre[i] > 2 * args.domain[i][2] - args.domain[i][1]
    /\ \E i \in 1..Len(x_pre) :
          x_pre[i] < 2 * args.domain[i][1] - args.domain[i][2]

\* C10: _periodic_wrap returns a value within [min, max] unchanged and
\* unflagged, returns a value within [min, max] for any other, and called on
\* what it returned returns the same values with every flag False.
C10WrapIdempotent ==
    /\ wrap.pc \in {"called", "again"} =>
          \A i \in 1..Len(wrap.xs) :
              LET lo == wrap.xlimits[i][1]
                  hi == wrap.xlimits[i][2]
              IN  /\ lo <= wrap.new_xs[i] /\ wrap.new_xs[i] <= hi
                  /\ (lo <= wrap.xs[i] /\ wrap.xs[i] <= hi) =>
                        (wrap.new_xs[i] = wrap.xs[i] /\ ~wrap.did_wraps[i])
    /\ wrap.pc = "again" =>
          /\ wrap.again_xs = wrap.new_xs
          /\ \A i \in 1..Len(wrap.xs) : ~wrap.again_wraps[i]

\* a value below min and a value above max were wrapped, then wrapped again
C10Witness ==
    /\ wrap.pc = "again"
    /\ Len(wrap.xs) = 2
    /\ wrap.xs[1] < wrap.xlimits[1][1] /\ wrap.did_wraps[1]
    /\ wrap.xs[2] > wrap.xlimits[2][2] /\ wrap.did_wraps[2]

\* equality of two rationals
RatEq(a, b) == a.n * b.d = b.n * a.d

\* C11: for valid arguments with niter >= 2 and either decay type the
\* temperature of step 0 equals init_temp and the temperature of step
\* niter-1 equals final_temp.
C11ScheduleEndpoints ==
    (ValidArgs(args) /\ args.niter >= 2 /\ pc = "update") =>
        /\ k = 0 => RatEq(temp, Rat(args.init_temp, 1))
        /\ k = args.niter - 1 => RatEq(temp, Rat(args.final_temp, 1))

\* the last of three steps of an exponential schedule is at final_temp
C11Witness ==
    /\ ValidArgs(args) /\ args.niter = 3 /\ args.decay_type = "exp"
    /\ pc = "update" /\ k = 2
    /\ RatEq(temp, Rat(args.final_temp, 1))
    /\ ~RatEq(temp, Rat(args.init_temp, 1))

\* C12: for valid arguments with niter >= 2 and final_temp < init_temp, from
\* one step to the next the exponential temperature does not rise and the
\* linear temperature changes by (final_temp - init_temp)/(niter - 1).
C12Step ==
    (ValidArgs(args) /\ args.niter >= 2 /\ args.final_temp < args.init_temp
        /\ pc = "loop" /\ pc' = "update" /\ k >= 1) =>
        /\ args.decay_type = "exp" => ~RatLt(temp, temp')
        /\ args.decay_type = "linear" =>
              RatEq(Rat(temp'.n * temp.d - temp.n * temp'.d, temp.d * temp'.d),
                    Rat(args.final_temp - args.init_temp, args.niter - 1))

C12ScheduleShape == [][C12Step]_vars

\* the third step of a linear schedule, two equal differences behind it, at
\* a temperature that is not a whole number
C12Witness ==
    /\ ValidArgs(args) /\ args.niter >= 3 /\ args.decay_type = "linear"
    /\ args.final_temp < args.init_temp
    /\ pc = "update" /\ k = 2

C14Step ==
    /\ (calls' = calls + 1 /\ FRaises(args, evaluated')) =>
          /\ pc' = "error" /\ err' = "FError"
          /\ fun' = fun /\ fun_new' = fun_new /\ x' = x /\ k' = k
          /\ result' = <<>>
    /\ pc = "error" => FALSE

C14CostFailurePropagates == [][C14Step]_vars

\* f has raised on the candidate of a step after the first: the call is over
\* with two or more calls of f behind it and nothing returned
C14Witness ==
    /\ pc = "error" /\ err = "FError" /\ k >= 1 /\ calls = k + 2
    /\ FRaises(args, evaluated) /\ evaluated = x_new /\ result = <<>>

\* C15: the returned pair is the state after the last step: the candidate
\* accepted latest with its cost, or the initial vector with its cost when
\* no candidate was accepted; a state of lower cost that was current earlier
\* in the call does not take its place.
C15ReturnsLastState ==
    pc = "done" => (result = hist.last /\ result = <<x, fun>>)

\* a call has returned a state that costs more than a state that was current
\* earlier in the call
C15Witness ==
    /\ pc = "done" /\ args.niter >= 2 /\ ValidArgs(args)
    /\ result = hist.last
    /\ hist.best[2] < result[2]

\* C16: a call with a filename that runs to its return writes one header
\* and then niter lines, one per step, in the order of k; the line of step k
\* is written before the update of that step and has the temperature of the
\* step, the cost of x before the decision, the cost of the candidate, the
\* acceptance probability, the draw and the accept switch that the update
\* then applies (the numbers as '{:.6f}' prints them).
C16Lines ==
    args.filename # "None" =>
        LET recs == output_file.records IN
        /\ pc \in {"loop", "update", "done"} => output_file.headers = 1
        /\ \A i \in 1..Len(recs) : recs[i].k = i - 1
        /\ pc = "loop" => Len(recs) = k
        /\ pc = "update" =>
              /\ Len(recs) = k + 1
              /\ recs[k + 1].temp = Fmt6(temp)
              /\ recs[k + 1].fun = Fmt6(Rat(fun, 1))
              /\ recs[k + 1].fun_new = Fmt6(Rat(fun_new, 1))
              /\ recs[k + 1].p = Fmt6(Rat(p, PScale))
              /\ recs[k + 1].rn = Fmt6(Rat(rn, PScale))
              /\ recs[k + 1].accept = accept
        /\ pc = "done" => (Len(recs) = args.niter /\ output_file.state = "closed")

C16Step ==
    (args.filename # "None" /\ pc = "update") =>
        LET rec == output_file.records[k + 1] IN
        /\ output_file' = output_file
        /\ rec.accept => (x' = x_new /\ fun' = fun_new)
        /\ ~rec.accept => (x' = x /\ fun' = fun)

C16TraceFile == [](C16Lines) /\ [][C16Step]_vars

\* a call of three steps has returned and closed its file: three lines, a
\* rejected step among them, an accepted one that raised the cost, and a
\* temperature that '{:.6f}' had to round
C16Witness ==
    /\ args.filename # "None" /\ pc = "done" /\ args.niter = 3
    /\ output_file.state = "closed" /\ output_file.headers = 1
    /\ Len(output_file.records) = 3
    /\ ~output_file.records[1].accept
    /\ output_file.records[2].accept
    /\ output_file.records[2].fun < output_file.records[2].fun_new
    /\ output_file.records[2].temp % Micro \notin {0, Micro \div 2}

\* C17 as stated: for every finite df and every positive temp,
\* _accept_boltzmann returns, without raising, a p with 0 < p <= 1.
C17PositiveProbability ==
    (boltz.pc # "call" /\ boltz.temp.n > 0) =>
        /\ boltz.pc = "returned"
        /\ boltz.positive
        /\ boltz.p <= PScale

\* C17 amended: for every finite df and every positive temp,
\* _accept_boltzmann returns, without raising, a p with 0 <= p <= 1, and
\* p = 1 when df <= 0; p is 0.0 when exp(-df/temp) underflows.
C17ProbabilityInUnitInterval ==
    (boltz.pc # "call" /\ boltz.temp.n > 0) =>
        /\ boltz.pc = "returned"
        /\ 0 <= boltz.p /\ boltz.p <= PScale
        /\ boltz.df <= 0 => (boltz.p = PScale /\ boltz.positive)
        /\ ~boltz.positive => boltz.p = 0

\* a call with a positive temperature has returned 0.0
C17Witness ==
    /\ boltz.pc = "returned" /\ boltz.temp.n > 0 /\ boltz.df > 0
    /\ ~boltz.positive /\ boltz.p = 0

\* C18: a call with niter = 1 and otherwise valid arguments, of either decay
\* type, makes its single step at init_temp, without the decay factor, and
\* returns a result.
C18SingleIteration ==
    (ValidArgs(args) /\ args.niter = 1 /\ ~args.f_partial) =>
        /\ pc # "error"
        /\ pc = "update" => (k = 0 /\ RatEq(temp, Rat(args.init_temp, 1)))
        /\ pc = "done" => (k = 1 /\ result # <<>>)

\* the dict that db_read(idn) returns in state d ({} when it raises)
ReadBack(d, idn) ==
    IF db_read(d, IntV(idn)).raised = "" THEN db_read(d, IntV(idn)).ret ELSE EmptyDict

\* a db_save of values_dict, with an int id that is not in the table, that
\* returns
SavesNewId(values_dict) ==
    /\ db'.call.op = "db_save" /\ db'.call.values = values_dict
    /\ db'.call.raised = ""
    /\ db_table_exists(db)
    /\ values_dict.id.type = "int"
    /\ values_dict.id.int \notin DOMAIN db.rows

\* C19 as stated: on an existing table a db_save(values_dict) with an id that
\* is not in the table returns that id, the db_read of that id that follows
\* returns a dict equal to values_dict, and every entry saved earlier is
\* read back as before.
C19StepAsStated ==
    /\ \A values_dict \in ValuesDicts :
          SavesNewId(values_dict) =>
              /\ db'.call.ret = values_dict.id
              /\ \A j \in DOMAIN db.rows : ReadBack(db', j) = ReadBack(db, j)
    /\ (db.call.op = "db_save" /\ db.call.raised = ""
          /\ db.call.values.id.type = "int"
          /\ db'.call.op = "db_read" /\ db'.call.idn = db.call.values.id) =>
              db'.call.ret = db.call.values

C19SaveThenRead == [][C19StepAsStated]_vars

\* every value of values_dict but the id is None or of the type of its
\* column: a str in a TEXT column, an int in an INTEGER column
TypesMatch(d, values_dict) ==
    \A i \in 1..Len(d.columns) :
        i # IdColumn(d) =>
            LET v == values_dict[d.columns[i].name] IN
            \/ v.type = "NoneType"
            \/ v.type = "str" /\ d.columns[i].type = "TEXT"
            \/ v.type = "int" /\ d.columns[i].type = "INTEGER"

\* values_dict has the columns of the table as its keys, an int id that is
\* not in the table, no None in a NOT NULL column, and values of the types
\* of their columns
FitsTable(d, values_dict) ==
    /\ db_table_exists(d)
    /\ DOMAIN values_dict = {d.columns[i].name : i \in 1..Len(d.columns)}
    /\ values_dict.id.type = "int"
    /\ values_dict.id.int \notin DOMAIN d.rows
    /\ \A i \in 1..Len(d.columns) :
          d.columns[i].not_null => values_dict[d.columns[i].name] # None
    /\ TypesMatch(d, values_dict)

\* C19 amended: on an existing table whose id is the INTEGER primary key, a
\* db_save(values_dict) whose keys are the columns, whose id is an int that
\* is not in the table and whose other values are of the types of their
\* columns (None only where the column allows it) returns that id, the
\* db_read of that id that follows returns a dict equal to values_dict, and
\* every entry saved earlier is read back as before.
C19StepAmended ==
    /\ (db'.call.op = "db_save" /\ FitsTable(db, db'.call.values)) =>
          /\ db'.call.raised = ""
          /\ db'.call.ret = db'.call.values.id
          /\ \A j \in DOMAIN db.rows : ReadBack(db', j) = ReadBack(db, j)
    /\ (db.call.op = "db_save" /\ db.call.raised = ""
          /\ db.call.values.id.type = "int"
          /\ TypesMatch(db, db.call.values)
          /\ db'.call.op = "db_read" /\ db'.call.idn = db.call.values.id) =>
              db'.call.ret = db.call.values

C19SaveThenReadTyped == [][C19StepAmended]_vars

\* the entry of id 2, an int among its values, was saved into a table that
\* held the entry of id 1, and has been read back equal to values_dict
C19Witness ==
    /\ db.call.op = "db_read" /\ db.call.raised = "" /\ db.call.idn = IntV(2)
    /\ DOMAIN db.rows = {1, 2}
    /\ db.call.ret = [id |-> IntV(2), date |-> StrV("d"), hour |-> StrV("h"),
                      num |-> IntV(1)]

\* C20: a db_save of a values_dict whose id is in the table raises and
\* leaves the table as it was: no entry more, and the entry of that id with
\* the values it had.
C20Step ==
    (db'.call.op = "db_save" /\ db_table_exists(db)
        /\ "id" \in DOMAIN db'.call.values
        /\ db'.call.values.id.type = "int"
        /\ db'.call.values.id.int \in DOMAIN db.rows) =>
            /\ db'.call.raised # ""
            /\ db'.rows = db.rows
            /\ db'.columns = db.columns
            /\ ReadBack(db', db'.call.values.id.int) = ReadBack(db, db'.call.values.id.int)

C20DuplicateIdRaises == [][C20Step]_vars

\* a db_save with the id of an entry of the table, and other values than
\* that entry has, has raised; the entry is as it was
C20Witness ==
    /\ db.call.op = "db_save" /\ db.call.raised = "IntegrityError"
    /\ DOMAIN db.call.values = {"id", "date", "hour", "num"}
    /\ db.call.values.id = IntV(1) /\ 1 \in DOMAIN db.rows
    /\ db.call.values.date # None
    /\ db.call.values.num = IntV(1)
    /\ ReadBack(db, 1).num = None

\* a db_save of a values_dict with id None that returns
SavesWithoutId ==
    /\ db'.call.op = "db_save" /\ db'.call.raised = ""
    /\ db'.call.values.id = None

\* C21 as stated: a db_save with id None stores the entry under an id it
\* assigns and returns that id, which is what db_get_last_id returns right
\* afterwards and is larger than every id the table had before the call.
C21StepAsStated ==
    /\ SavesWithoutId =>
          /\ db'.call.ret.type = "int"
          /\ DOMAIN db'.rows = DOMAIN db.rows \cup {db'.call.ret.int}
          /\ db'.call.ret.int \notin DOMAIN db.rows
          /\ db_get_last_id(db').ret = db'.call.ret
          /\ \A j \in DOMAIN db.rows : j < db'.call.ret.int
    /\ (db.call.op = "db_save" /\ db.call.raised = "" /\ db.call.values.id = None
          /\ db'.call.op = "db_get_last_id") => db'.call.ret = db.call.ret

C21NewIdIsLast == [][C21StepAsStated]_vars

\* C21 amended: on a table whose id is the INTEGER primary key and whose
\* largest id is below the largest rowid of SQLite (2^63 - 1), a db_save with
\* id None that returns has stored the entry under an id it assigned and
\* returns that id, which is what db_get_last_id returns right afterwards
\* and is larger than every id the table had before the call.
C21StepAmended ==
    /\ (SavesWithoutId /\ MaxRowId \notin DOMAIN db.rows) =>
          /\ db'.call.ret.type = "int"
          /\ DOMAIN db'.rows = DOMAIN db.rows \cup {db'.call.ret.int}
          /\ db'.call.ret.int \notin DOMAIN db.rows
          /\ db_get_last_id(db').ret = db'.call.ret
          /\ \A j \in DOMAIN db.rows : j < db'.call.ret.int
    /\ (db.call.op = "db_save" /\ db.call.raised = "" /\ db.call.values.id = None
          /\ MaxRowId \notin DOMAIN db.rows
          /\ db'.call.op = "db_get_last_id") => db'.call.ret = db.call.ret

C21NewIdIsLastBelowLimit == [][C21StepAmended]_vars

\* db_get_last_id has returned the id that the db_save with id None before it
\* assigned in a table that held the entry of id 2 only
C21Witness ==
    /\ db.call.op = "db_get_last_id" /\ db.call.raised = ""
    /\ db.call.ret = IntV(3)
    /\ DOMAIN db.rows = {2, 3}

\* a db_update(values_dict, idn) that returns, on a table with an entry of
\* id idn
UpdatesEntry ==
    /\ db'.call.op = "db_update" /\ db'.call.raised = ""
    /\ db'.call.idn.int \in DOMAIN db.rows

\* C22 as stated: after a db_update(values_dict, idn) that succeeds on a
\* table with an entry of id idn, db_read(idn) returns a dict equal to
\* values_dict and every other entry of the table is as before.
C22StepAsStated ==
    /\ UpdatesEntry =>
          /\ ReadBack(db', db'.call.idn.int) = db'.call.values
          /\ \A j \in DOMAIN db.rows \ {db'.call.idn.int} :
                ReadBack(db', j) = ReadBack(db, j)
    /\ (db.call.op = "db_update" /\ db.call.raised = ""
          /\ db.call.idn.int \in DOMAIN db.rows
          /\ db'.call.op = "db_read" /\ db'.call.idn = db.call.idn) =>
              db'.call.ret = db.call.values

C22UpdateThenRead == [][C22StepAsStated]_vars

\* C22 amended: after a db_update(values_dict, idn) that succeeds on a table
\* with an entry of id idn, where values_dict['id'] is idn and the other
\* values are of the types of their columns, db_read(idn) returns a dict
\* equal to values_dict; every other entry of the table is as before
\* whatever values_dict is.
C22StepAmended ==
    /\ UpdatesEntry =>
          /\ (db'.call.values.id = db'.call.idn /\ TypesMatch(db, db'.call.values)) =>
                ReadBack(db', db'.call.idn.int) = db'.call.values
          /\ \A j \in DOMAIN db.rows \ {db'.call.idn.int} :
                ReadBack(db', j) = ReadBack(db, j)
          /\ Cardinality(DOMAIN db'.rows) = Cardinality(DOMAIN db.rows)
    /\ (db.call.op = "db_update" /\ db.call.raised = ""
          /\ db.call.idn.int \in DOMAIN db.rows
          /\ db.call.values.id = db.call.idn /\ TypesMatch(db, db.call.values)
          /\ db'.call.op = "db_read" /\ db'.call.idn = db.call.idn) =>
              db'.call.ret = db.call.values

C22UpdateThenReadSameId == [][C22StepAmended]_vars

\* db_update has returned after updating the entry of id 1, beside the entry
\* of id 2, with a values_dict of id 1 and of the types of the columns, and
\* the entry reads back equal to values_dict
C22Witness ==
    /\ db.call.op = "db_update" /\ db.call.raised = "" /\ db.call.idn = IntV(1)
    /\ DOMAIN db.rows = {1, 2}
    /\ db.call.values = [id |-> IntV(1), date |-> StrV("d"), hour |-> StrV("h"),
                         num |-> IntV(1)]
    /\ ReadBack(db, 1) = db.call.values

\* the functions of C23
NamedOps ==
    {"db_get_tables", "db_table_exists", "db_get_column_names",
     "db_get_column_types", "db_get_first_id", "db_get_last_id", "db_get_values",
     "db_get_value", "db_search_column", "db_search_table", "db_save", "db_read",
     "db_update"}

\* the file, the columns and the entries are those of d
SameData(d, e) == d.file = e.file /\ d.columns = e.columns /\ d.rows = e.rows

\* C23: with a database name that is None or '' or that is no file, each of
\* the thirteen functions raises SqliteDatabaseError; with the file but
\* without the table db_get_tables returns, db_table_exists returns False
\* and the eleven others raise SqliteDatabaseError; in both cases no file is
\* made and no entry is changed.
C23Step ==
    db'.call.op \in NamedOps =>
        /\ (NoneOrEmpty(db'.call.database_name) \/ ~db.file) =>
              db'.call.raised = "SqliteDatabaseError" /\ SameData(db, db')
        /\ (~NoneOrEmpty(db'.call.database_name) /\ db.file /\ db.columns = <<>>) =>
              /\ SameData(db, db')
              /\ IF db'.call.op = "db_get_tables" THEN db'.call.raised = ""
                 ELSE IF db'.call.op = "db_table_exists"
                      THEN db'.call.raised = "" /\ db'.call.ret = FALSE
                 ELSE db'.call.raised = "SqliteDatabaseError"

C24Names(db_dict) ==
    LET fields == {db_dict[i].field : i \in 1..Len(db_dict)} IN
    (IF "id" \in fields THEN <<>> ELSE <<"id">>)
    \o (IF "date" \in fields THEN <<>> ELSE <<"date">>)
    \o (IF "hour" \in fields THEN <<>> ELSE <<"hour">>)
    \o [i \in 1..Len(db_dict) |-> db_dict[i].field]

\* C24: a db_create_table that returns returns True; when the table was not
\* there its columns are id, date and hour, each only when db_dict has no
\* field of that name, followed by the fields of db_dict in order; when the
\* table was there its columns and entries are as before.  It returns for
\* every db_dict whose dtypes are known.
C24Step ==
    \A db_dict \in DbDicts :
        (db' = AfterCall("db_create_table", <<>>, None, db_create_table(db, db_dict))) =>
            /\ (\A i \in 1..Len(db_dict) : db_dict[i].dtype \in {"int", "str"}) =>
                  db'.call.raised = "" /\ db'.call.ret = TRUE
            /\ (db'.call.raised = "" /\ ~db_table_exists(db)) =>
                  /\ db_get_column_names(db') = C24Names(db_dict)
                  /\ db'.rows = <<>>
            /\ db_table_exists(db) =>
                  db'.columns = db.columns /\ db'.rows = db.rows

C24CreateTable == [][C24Step]_vars

\* db_create_table has returned True for a table with an entry, which is as
\* it was made: hour, then date, id and other, the fields of db_dict
C24Witness ==
    /\ db.call.op = "db_create_table" /\ db.call.raised = ""
    /\ db.call.ret = TRUE
    /\ db_get_column_names(db) = <<"hour", "date", "id", "other">>
    /\ DOMAIN db.rows # {}

\* the entry satisfies the filter filt on the column: the condition that the
\* filter states for the column holds for it
SatisfiesFilter(d, entry, column, filt) ==
    filt = "" \/ \E t \in 1..Len(Terms(d, entry, ColumnIndex(d, column), filt)) :
                    Terms(d, entry, ColumnIndex(d, column), filt)[t]

\* the ids of the entries of d that satisfy every filter of the call c that
\* is not '', with id >= initial_idn when initial_idn is given
Matching(d, c) ==
    LET columns == IF c.values[1] = <<>> THEN db_get_column_names(d) ELSE c.values[1]
        filters == IF c.values[2] = <<>> THEN [i \in 1..Len(columns) |-> ""]
                   ELSE c.values[2]
    IN  {j \in DOMAIN d.rows :
            /\ \A n \in 1..Len(columns) :
                  SatisfiesFilter(d, d.rows[j], columns[n], filters[n])
            /\ c.idn # None => j >= c.idn.int}

\* C25 as stated: a db_search_table with initial_idn that returns returns
\* only entries that satisfy every filter that is not '' and have id >=
\* initial_idn; with max_nr_lines it returns min(max_nr_lines, number of such
\* entries) entries, none for max_nr_lines = 0.
C25Step ==
    (db'.call.op = "db_search_table" /\ db'.call.raised = "") =>
        /\ db'.call.idn # None =>
              \A n \in 1..Len(db'.call.ret) :
                  db'.call.ret[n].id.int \in Matching(db, db'.call)
        /\ db'.call.values[3] # None =>
              Len(db'.call.ret) =
                  IF db'.call.values[3].int < Cardinality(Matching(db, db'.call))
                  THEN db'.call.values[3].int
                  ELSE Cardinality(Matching(db, db'.call))

C25SearchTable == [][C25Step]_vars

\* C26 as stated: a DatabaseDocument.db_save on the collection made for its
\* db_dict, whether or not db_dict maps an attribute to 'id', returns the id
\* of one new entry and leaves the entries that were there as they were;
\* when it does not return, the entries are as before.
C26Step ==
    db'.call.op = "DatabaseDocument.db_save" =>
        /\ db.columns = Variables(db'.call.values[1]) => db'.call.raised = ""
        /\ db'.call.raised = "" =>
              /\ db'.call.ret.int \notin DOMAIN db.rows
              /\ DOMAIN db'.rows = DOMAIN db.rows \cup {db'.call.ret.int}
              /\ \A j \in DOMAIN db.rows : db'.rows[j] = db.rows[j]
        /\ db'.call.raised # "" => db'.rows = db.rows

C26DocumentSave == [][C26Step]_vars

\* C27: at the start of every step and at the return fun is the cost of x,
\* and (x, fun) is the initial vector with its cost or the candidate that
\* was accepted last with the cost evaluated for it.
C27CostOfCurrent ==
    /\ pc \in {"loop", "update", "done"} =>
          /\ fun = CostFn(args.domain_type, x)
          /\ <<x, fun>> = hist.last
    /\ pc = "done" => result = <<x, fun>>

\* the call has returned a candidate that was accepted although its cost is
\* above the lowest cost met, together with that cost
C27Witness ==
    /\ pc = "done" /\ k >= 2
    /\ result = hist.last /\ hist.last # hist.best
    /\ result[2] = CostFn(args.domain_type, result[1])
    /\ result[2] > hist.best[2]

\* (x - xmin) mod (xmax - xmin): the r in [0, xmax - xmin) that differs from
\* x - xmin by a multiple of xmax - xmin
ModPeriod(xi, xmin, xmax) ==
    CHOOSE r \in 0..(xmax - xmin - 1) :
        \E q \in (-2 * MaxX)..(2 * MaxX) : xi - xmin = q * (xmax - xmin) + r

\* the example of the docstring, limits [2, 8]
ExampleXs == <<-2, 17, 8, 9, 2, 1>>

ExampleNewXs == <<4, 5, 8, 3, 2, 7>>

ExampleDidWraps == <<TRUE, TRUE, FALSE, TRUE, FALSE, TRUE>>

\* C28: for limits [min, max] with min < max _periodic_wrap returns x itself
\* with flag False when min <= x <= max and min + ((x - min) mod (max -
\* min)) with flag True otherwise; with limits [2, 8] the values -2, 17, 8,
\* 9, 2, 1 give 4, 5, 8, 3, 2, 7 and the flags True, True, False, True,
\* False, True.
C28WrapFormula ==
    wrap.pc \in {"called", "again"} =>
        \A i \in 1..Len(wrap.xs) :
            LET xi == wrap.xs[i]
                xmin == wrap.xlimits[i][1]
                xmax == wrap.xlimits[i][2]
            IN  /\ (xmin <= xi /\ xi <= xmax) =>
                      (wrap.new_xs[i] = xi /\ ~wrap.did_wraps[i])
                /\ ~(xmin <= xi /\ xi <= xmax) =>
                      /\ wrap.new_xs[i] = xmin + ModPeriod(xi, xmin, xmax)
                      /\ wrap.did_wraps[i]
                /\ wrap.xlimits[i] = <<2, 8>> =>
                      \A j \in 1..Len(ExampleXs) :
                          xi = ExampleXs[j] =>
                              /\ wrap.new_xs[i] = ExampleNewXs[j]
                              /\ wrap.did_wraps[i] = ExampleDidWraps[j]

\* the call of the example on its values 17 and 8 has returned 5 and 8
C28Witness ==
    /\ wrap.pc = "called"
    /\ wrap.xs = <<17, 8>> /\ wrap.xlimits = << <<2, 8>>, <<2, 8>> >>
    /\ wrap.new_xs = <<5, 8>> /\ wrap.did_wraps = <<TRUE, FALSE>>

\* v after the overwrite steps picks, each storing the option itself
RECURSIVE Overwritten(_, _)
Overwritten(v, picks) ==
    IF picks = <<>> THEN v
    ELSE Overwritten([v EXCEPT ![Head(picks)[1]] = Head(picks)[2]], Tail(picks))

\* C29: for a discrete domain the candidate of a step is x after exactly
\* round(visit_scale) overwrite steps, each putting an option of a dimension
\* in the place of that dimension's entry; it differs from x in at most
\* round(visit_scale) dimensions and is x when round(visit_scale) is 0.
C29Step ==
    (args.domain_type = "discrete" /\ pc = "loop" /\ calls' = calls + 1) =>
        /\ \E picks \in [1..PyRound(visit_scale') -> Picks(args.domain)] :
              x_new' = Overwritten(x, picks)
        /\ Cardinality({i \in 1..Len(x) : x_new'[i] # x[i]}) <= PyRound(visit_scale')
        /\ PyRound(visit_scale') = 0 => x_new' = x

C29DiscreteCandidate == [][C29Step]_vars

====
